---- MODULE Spec2Model ----
(***************************************************************************)
(* Geometry, compositing, eraser and export pipeline of LineArt            *)
(* automation: the three raster routes (composite, export-full, export),   *)
(* the eraser route (apply-eraser) and the canvas lookup of types/index.   *)
(*                                                                         *)
(* Numbers.  The routes take JSON numbers.  Centre and scale values are    *)
(* carried in HALVES (a name ending in 2 holds twice the value), so that   *)
(* x.5 inputs exist and JavaScript's Math.round is modelled exactly.       *)
(***************************************************************************)
EXTENDS Integers, Sequences, FiniteSets, TLC

VARIABLES request, response,          \* last raster request and its response
          lastLabel, canvasSpec, seen, \* calls of getCanvasDimensions
          lineArt,                     \* the overlay the editor holds
          eraserReq, eraserIn,         \* last apply-eraser request and its input
          eraserOut,                   \* how the route answered it
          eraseCount, repeat,          \* its pixel writes; was it a resubmission
          erasures,                    \* cleaned overlays the editor has kept
          placement, hasComposited,    \* CompositeStep: slider state, mount ref
          timer, sent, burst,          \* its debounce timer, last request, history
          wizard,                      \* Home's step and the mounted transform step
          auth,                        \* the browser's login state and the auth decisions
          csv,                         \* the last CSV row given to parseLineArtOrder and its result
          editor                       \* CompositeStep: overlay held, requests in flight, preview shown

vars == <<request, response, lastLabel, canvasSpec, seen,
          lineArt, eraserReq, eraserIn, eraserOut, eraseCount, repeat, erasures,
          placement, hasComposited, timer, sent, burst, wizard, auth, csv, editor>>
rasterVars == <<request, response>>
resolverVars == <<lastLabel, canvasSpec, seen>>
eraserVars == <<lineArt, eraserReq, eraserIn, eraserOut, eraseCount, repeat, erasures>>
debounceVars == <<placement, hasComposited, timer, sent, burst>>
transformVars == <<wizard>>
authVars == <<auth>>
csvVars == <<csv>>
editorVars == <<editor>>
nonRasterVars == <<resolverVars, eraserVars, debounceVars, transformVars, authVars, csvVars, editorVars>>
nonResolverVars == <<rasterVars, eraserVars, debounceVars, transformVars, authVars, csvVars, editorVars>>
nonEraserVars == <<rasterVars, resolverVars, debounceVars, transformVars, authVars, csvVars, editorVars>>
nonDebounceVars == <<rasterVars, resolverVars, eraserVars, transformVars, authVars, csvVars, editorVars>>
nonTransformVars == <<rasterVars, resolverVars, eraserVars, debounceVars, authVars, csvVars, editorVars>>
nonAuthVars == <<rasterVars, resolverVars, eraserVars, debounceVars, transformVars, csvVars, editorVars>>
nonCsvVars == <<rasterVars, resolverVars, eraserVars, debounceVars, transformVars, authVars, editorVars>>
nonEditorVars == <<rasterVars, resolverVars, eraserVars, debounceVars, transformVars, authVars, csvVars>>

----------------------------------------------------------------------------
(* Arithmetic helpers *)

Max(a, b) == IF a >= b THEN a ELSE b
Min(a, b) == IF a <= b THEN a ELSE b

\* Math.round(n/d) for d > 0: floor(n/d + 1/2), ties go towards +infinity.
Round(n, d) == (2 * n + d) \div (2 * d)

----------------------------------------------------------------------------
(* types/index.ts *)

ImageSizes == {"30x40", "24x36", "24x32", "20x30", "18x24", "16x24", "12x16", "9x12"}
AspectRatios == {"3:4", "2:3"}
BleedTypes == {"none", "450px", "20px"}

SIZE_ASPECT_RATIO ==
  ("30x40" :> "3:4") @@ ("24x36" :> "2:3") @@ ("24x32" :> "3:4") @@
  ("20x30" :> "2:3") @@ ("18x24" :> "3:4") @@ ("16x24" :> "2:3") @@
  ("12x16" :> "3:4") @@ ("9x12" :> "3:4")

SIZE_PIXELS ==
  ("30x40" :> [width |-> 9000, height |-> 12000]) @@
  ("24x36" :> [width |-> 7200, height |-> 10800]) @@
  ("24x32" :> [width |-> 7200, height |-> 9600]) @@
  ("20x30" :> [width |-> 6000, height |-> 9000]) @@
  ("18x24" :> [width |-> 5400, height |-> 7200]) @@
  ("16x24" :> [width |-> 4800, height |-> 7200]) @@
  ("12x16" :> [width |-> 3600, height |-> 4800]) @@
  ("9x12" :> [width |-> 2700, height |-> 3600])

CANVAS_DIMENSIONS ==
  ("3:4" :> [width |-> 5400, height |-> 7200]) @@
  ("2:3" :> [width |-> 5400, height |-> 8100])

getCanvasDimensions_printSize(size) ==
  [width |-> SIZE_PIXELS[size].width,
   height |-> SIZE_PIXELS[size].height,
   aspectRatio |-> SIZE_ASPECT_RATIO[size]]

\* { ...CANVAS_DIMENSIONS[aspectRatio], aspectRatio }.  For a label that is
\* not a key of SIZE_ASPECT_RATIO the aspect ratio is undefined, spreading
\* CANVAS_DIMENSIONS[undefined] adds nothing, and the object returned has no
\* width and no height.
getCanvasDimensions(size) ==
  IF size \in DOMAIN SIZE_ASPECT_RATIO
  THEN [width |-> CANVAS_DIMENSIONS[SIZE_ASPECT_RATIO[size]].width,
        height |-> CANVAS_DIMENSIONS[SIZE_ASPECT_RATIO[size]].height,
        aspectRatio |-> SIZE_ASPECT_RATIO[size]]
  ELSE [aspectRatio |-> "undefined"]

----------------------------------------------------------------------------
(* Shared shapes of the raster routes *)

NoRect == [left |-> 0, top |-> 0, width |-> 0, height2 |-> 0]
NoClip == [cropLeft |-> 0, cropTop |-> 0, visibleLeft |-> 0, visibleTop |-> 0,
           visibleWidth |-> 0, visibleHeight |-> 0]

\* The text part of a CompositeConfig, each value in halves.
NoTextConfig ==
  [titleFontSize2 |-> 0, titleTop2 |-> 0, titleLetterSpacing2 |-> 0,
   dateFontSize2 |-> 0, dateTop2 |-> 0, dateLetterSpacing2 |-> 0]

NoRequest ==
  [op |-> "none", lineArtImage |-> "", backgroundColor |-> "beige",
   lineArtCenterX2 |-> 0, lineArtCenterY2 |-> 0, lineArtScale2 |-> 0,
   text |-> NoTextConfig,
   title |-> "", date |-> "", size |-> "18x24", bleed |-> "none",
   preview |-> FALSE]

\* status 0: no response yet.  placed / clipped tell how far the handler got.
NoResponse ==
  [status |-> 0, canvas |-> [width |-> 0, height |-> 0],
   scaled |-> [centerX2 |-> 0, centerY2 |-> 0, scale2 |-> 0],
   placed |-> FALSE, rect |-> NoRect,
   clipped |-> FALSE, clip |-> NoClip,
   extracted |-> FALSE, overlayLayer |-> "none",
   layers |-> <<>>, drawn |-> <<>>,
   width |-> 0, height |-> 0, padded |-> FALSE]

\* Background assets present under public/assets/backgrounds.
BackgroundAssets == {"beige", "blue", "pink"}

ToUpperCase(t) == IF t = "ann & bob" THEN "ANN & BOB" ELSE t

----------------------------------------------------------------------------
(* Placement / coordinate mapper, as both raster routes compute it *)

\* lineArtWidth, lineArtTop, lineArtLeft from centre and height (in halves).
LineArtRect_noHalfWidth(centerX2, centerY2, height2) ==
  LET w == Round(3 * height2, 8)
  IN [left |-> Round(centerX2 - 2 * w, 2),
      top |-> Round(2 * centerY2 - height2, 4),
      width |-> w, height2 |-> height2]

LineArtRect(centerX2, centerY2, height2) ==
  LET w == Round(3 * height2, 8)
  IN [left |-> Round(centerX2 - w, 2),
      top |-> Round(2 * centerY2 - height2, 4),
      width |-> w, height2 |-> height2]

\* sharp().resize(w, h): both must be positive integers, else it throws.
ResizeAccepts(width, height2) ==
  width > 0 /\ height2 > 0 /\ height2 % 2 = 0

\* The visible portion of the resized line art inside the canvas.
VisibleRegion_noCropOffset(left, top, width, height, canvasWidth, canvasHeight) ==
  LET cropLeft == Max(0, -left)
      cropTop == Max(0, -top)
      visibleLeft == Max(0, left)
      visibleTop == Max(0, top)
  IN [cropLeft |-> cropLeft, cropTop |-> cropTop,
      visibleLeft |-> visibleLeft, visibleTop |-> visibleTop,
      visibleWidth |-> Min(width, canvasWidth - visibleLeft),
      visibleHeight |-> Min(height, canvasHeight - visibleTop)]

VisibleRegion(left, top, width, height, canvasWidth, canvasHeight) ==
  LET cropLeft == Max(0, -left)
      cropTop == Max(0, -top)
      visibleLeft == Max(0, left)
      visibleTop == Max(0, top)
  IN [cropLeft |-> cropLeft, cropTop |-> cropTop,
      visibleLeft |-> visibleLeft, visibleTop |-> visibleTop,
      visibleWidth |-> Min(width - cropLeft, canvasWidth - visibleLeft),
      visibleHeight |-> Min(height - cropTop, canvasHeight - visibleTop)]

\* "Only process if there's something visible"
SomethingVisible_either(clip) == clip.visibleWidth > 0 \/ clip.visibleHeight > 0
SomethingVisible(clip) == clip.visibleWidth > 0 /\ clip.visibleHeight > 0

\* sharp().extract(region) on an image of srcWidth x srcHeight: the region
\* must be a non-empty rectangle inside the image, else it throws.
ExtractAccepts(clip, srcWidth, srcHeight) ==
  /\ clip.cropLeft >= 0 /\ clip.cropTop >= 0
  /\ clip.visibleWidth > 0 /\ clip.visibleHeight > 0
  /\ clip.cropLeft + clip.visibleWidth <= srcWidth
  /\ clip.cropTop + clip.visibleHeight <= srcHeight

\* The fillText calls on the text canvas, in the order they are made: the
\* title (upper case, bold) if it is non-empty, then the date if it is
\* non-empty, each centred on canvasWidth / 2 with its baseline at its top
\* value.  x2, y2, fontSize2 and letterSpacing2 are in halves.
TextDrawn_blankTitle(title, date, text, canvasWidth) ==
  <<[field |-> "title", text |-> ToUpperCase(title), bold |-> TRUE,
     x2 |-> canvasWidth, y2 |-> text.titleTop2,
     fontSize2 |-> text.titleFontSize2,
     letterSpacing2 |-> text.titleLetterSpacing2]>>
  \o
  (IF date # ""
   THEN <<[field |-> "date", text |-> date, bold |-> FALSE,
           x2 |-> canvasWidth, y2 |-> text.dateTop2,
           fontSize2 |-> text.dateFontSize2,
           letterSpacing2 |-> text.dateLetterSpacing2]>>
   ELSE <<>>)

TextDrawn(title, date, text, canvasWidth) ==
  (IF title # ""
   THEN <<[field |-> "title", text |-> ToUpperCase(title), bold |-> TRUE,
           x2 |-> canvasWidth, y2 |-> text.titleTop2,
           fontSize2 |-> text.titleFontSize2,
           letterSpacing2 |-> text.titleLetterSpacing2]>>
   ELSE <<>>)
  \o
  (IF date # ""
   THEN <<[field |-> "date", text |-> date, bold |-> FALSE,
           x2 |-> canvasWidth, y2 |-> text.dateTop2,
           fontSize2 |-> text.dateFontSize2,
           letterSpacing2 |-> text.dateLetterSpacing2]>>
   ELSE <<>>)

\* The background with the composite operations applied to it, in order.
CompositeOperations_textFirst(title, date) ==
  <<[input |-> "background", blend |-> "base"]>>
  \o (IF title # "" \/ date # ""
      THEN <<[input |-> "text", blend |-> "over"]>> ELSE <<>>)
  \o <<[input |-> "lineArt", blend |-> "multiply"]>>

CompositeOperations(title, date) ==
  <<[input |-> "background", blend |-> "base"],
    [input |-> "lineArt", blend |-> "multiply"]>>
  \o (IF title # "" \/ date # ""
      THEN <<[input |-> "text", blend |-> "over"]>> ELSE <<>>)

\* Lines 252-388 of the composite route, shared with export-full 102-216:
\* resize the line art, clip it to the canvas, draw the text, stack layers.
LayerStack(req, resp, centerX2, centerY2, height2, text, canvasWidth, canvasHeight) ==
  LET rect == LineArtRect(centerX2, centerY2, height2)
      r1 == [resp EXCEPT !.canvas = [width |-> canvasWidth, height |-> canvasHeight],
                         !.placed = TRUE, !.rect = rect]
  IN IF ~ResizeAccepts(rect.width, rect.height2)
     THEN [r1 EXCEPT !.status = 500]
     ELSE LET height == rect.height2 \div 2
              clip == VisibleRegion(rect.left, rect.top, rect.width, height,
                                    canvasWidth, canvasHeight)
              r2 == [r1 EXCEPT !.clipped = TRUE, !.clip = clip]
          IN IF SomethingVisible(clip)
             THEN IF ~ExtractAccepts(clip, rect.width, height)
                  THEN [r2 EXCEPT !.status = 500]
                  ELSE [r2 EXCEPT !.extracted = TRUE, !.overlayLayer = "cropped",
                                  !.layers = CompositeOperations(req.title, req.date),
                                  !.drawn = TextDrawn(req.title, req.date, text, canvasWidth),
                                  !.status = 200,
                                  !.width = canvasWidth, !.height = canvasHeight]
             ELSE [r2 EXCEPT !.overlayLayer = "empty",
                             !.layers = CompositeOperations(req.title, req.date),
                             !.drawn = TextDrawn(req.title, req.date, text, canvasWidth),
                             !.status = 200,
                             !.width = canvasWidth, !.height = canvasHeight]

----------------------------------------------------------------------------
(* POST /api/composite *)

COMPOSITE_CANVAS_WIDTH == 5400
COMPOSITE_CANVAS_HEIGHT == 7200

\* Math.round(v * scale), scale = preview ? 0.5 : 1, for v given in halves.
ScaleRound_unscaled(v2, preview) == Round(v2, 2)
ScaleRound(v2, preview) == Round(v2, IF preview THEN 4 ELSE 2)

CompositePOST(req) ==
  IF req.lineArtImage = ""
  THEN [NoResponse EXCEPT !.status = 400]
  ELSE LET canvasWidth == ScaleRound(2 * COMPOSITE_CANVAS_WIDTH, req.preview)
           canvasHeight == ScaleRound(2 * COMPOSITE_CANVAS_HEIGHT, req.preview)
           scaledConfig ==
             [centerX2 |-> 2 * ScaleRound(req.lineArtCenterX2, req.preview),
              centerY2 |-> 2 * ScaleRound(req.lineArtCenterY2, req.preview),
              scale2 |-> 2 * ScaleRound(req.lineArtScale2, req.preview)]
           scaledText ==
             [titleFontSize2 |-> 2 * ScaleRound(req.text.titleFontSize2, req.preview),
              titleTop2 |-> 2 * ScaleRound(req.text.titleTop2, req.preview),
              titleLetterSpacing2 |->
                2 * ScaleRound(req.text.titleLetterSpacing2, req.preview),
              dateFontSize2 |-> 2 * ScaleRound(req.text.dateFontSize2, req.preview),
              dateTop2 |-> 2 * ScaleRound(req.text.dateTop2, req.preview),
              dateLetterSpacing2 |->
                2 * ScaleRound(req.text.dateLetterSpacing2, req.preview)]
           r0 == [NoResponse EXCEPT !.scaled = scaledConfig]
       IN IF req.backgroundColor \notin BackgroundAssets
          THEN [r0 EXCEPT !.status = 400]
          ELSE LayerStack(req, r0, scaledConfig.centerX2, scaledConfig.centerY2,
                          scaledConfig.scale2, scaledText, canvasWidth, canvasHeight)

----------------------------------------------------------------------------
(* POST /api/export-full and POST /api/export *)

SIZE_DIMENSIONS == SIZE_PIXELS

BLEED_SIZES == ("none" :> 0) @@ ("450px" :> 450) @@ ("20px" :> 20)

\* BLEED_SIZES[bleed] || 0
BleedPx_widest(bleed) == IF bleed \in DOMAIN BLEED_SIZES THEN BLEED_SIZES[bleed] ELSE 450
BleedPx(bleed) == IF bleed \in DOMAIN BLEED_SIZES THEN BLEED_SIZES[bleed] ELSE 0

\* SIZE_DIMENSIONS[size] || SIZE_DIMENSIONS['18x24']
TargetSize(size) ==
  IF size \in DOMAIN SIZE_DIMENSIONS THEN SIZE_DIMENSIONS[size]
  ELSE SIZE_DIMENSIONS["18x24"]

\* Resize to the target size, then add the white border if bleedPx > 0.
ResizeAndBleed_oneSide(resp, targetSize, bleedPx) ==
  IF bleedPx > 0
  THEN [resp EXCEPT !.status = 200, !.padded = TRUE,
                    !.width = targetSize.width + bleedPx,
                    !.height = targetSize.height + bleedPx]
  ELSE [resp EXCEPT !.status = 200, !.padded = FALSE,
                    !.width = targetSize.width, !.height = targetSize.height]

ResizeAndBleed(resp, targetSize, bleedPx) ==
  IF bleedPx > 0
  THEN [resp EXCEPT !.status = 200, !.padded = TRUE,
                    !.width = targetSize.width + bleedPx * 2,
                    !.height = targetSize.height + bleedPx * 2]
  ELSE [resp EXCEPT !.status = 200, !.padded = FALSE,
                    !.width = targetSize.width, !.height = targetSize.height]

ExportFullPOST(req) ==
  IF req.lineArtImage = ""
  THEN [NoResponse EXCEPT !.status = 400]
  ELSE LET imageSize == IF req.size = "" THEN "18x24" ELSE req.size
           canvas == getCanvasDimensions(imageSize)
           r0 == [NoResponse EXCEPT
                    !.scaled = [centerX2 |-> req.lineArtCenterX2,
                                centerY2 |-> req.lineArtCenterY2,
                                scale2 |-> req.lineArtScale2]]
       IN IF req.backgroundColor \notin BackgroundAssets
          THEN [r0 EXCEPT !.status = 400]
          ELSE IF "width" \notin DOMAIN canvas
          \* CANVAS_WIDTH and CANVAS_HEIGHT are undefined: the background is
          \* not resized, the visible size is NaN, NaN > 0 is false, and
          \* sharp({create: {width: undefined, ...}}) throws; caught below.
          THEN [r0 EXCEPT !.status = 500]
          ELSE LET composite ==
                     LayerStack(req, r0, req.lineArtCenterX2, req.lineArtCenterY2,
                                req.lineArtScale2, req.text,
                                canvas.width, canvas.height)
               IN IF composite.status # 200
                  THEN composite
                  ELSE ResizeAndBleed(composite, TargetSize(req.size),
                                      BleedPx(req.bleed))

ExportPOST(req) ==
  IF req.lineArtImage = ""
  THEN [NoResponse EXCEPT !.status = 400]
  ELSE ResizeAndBleed(NoResponse, TargetSize(req.size), BleedPx(req.bleed))

----------------------------------------------------------------------------
(* Requests the model submits.  Centre and scale are in halves. *)

CenterX2s == {-6000, 0, 5400, 5401, 18000}
CenterY2s == {-8000, 6336, 6400, 7201, 24000}
Scale2s == {1, 201, 5762, 14400, 16200}
Titles == {"", "ann & bob"}
Dates == {"", "02.02.25"}
LineArtImages == {"", "png"}
BackgroundColors == {"beige", "green"}
\* The size and bleed fields of an export request are strings: a supported
\* value, none at all, or one the tables do not hold.
RequestSizes == ImageSizes \cup {"", "10x10"}
RequestBleeds == BleedTypes \cup {"5px"}

\* The editor's text defaults for the order's size (getDefaultConfig): the
\* baselines at 93% and 96% of the canvas height, the font sizes 2% and 1.3%
\* of it (rounded), the letter spacings 40 and 20.  Values in halves.
getDefaultConfig(size) ==
  LET canvasHeight == getCanvasDimensions(size).height
  IN [titleFontSize2 |-> 2 * Round(2 * canvasHeight, 100),
      titleTop2 |-> (2 * 93 * canvasHeight) \div 100,
      titleLetterSpacing2 |-> 2 * 40,
      dateFontSize2 |-> 2 * Round(13 * canvasHeight, 1000),
      dateTop2 |-> (2 * 96 * canvasHeight) \div 100,
      dateLetterSpacing2 |-> 2 * 20]

\* A request body; its text configuration is the editor's default for the
\* size (for a label the editor does not know, that of 18x24).
RasterRequest(op, img, bg, cx2, cy2, s2, title, date, size, bleed, preview) ==
  [op |-> op, lineArtImage |-> img, backgroundColor |-> bg,
   lineArtCenterX2 |-> cx2, lineArtCenterY2 |-> cy2, lineArtScale2 |-> s2,
   text |-> getDefaultConfig(IF size \in ImageSizes THEN size ELSE "18x24"),
   title |-> title, date |-> date, size |-> size, bleed |-> bleed,
   preview |-> preview]

Composite ==
  /\ request.op = "none"
  /\ \E img \in LineArtImages, bg \in BackgroundColors, cx2 \in CenterX2s,
     cy2 \in CenterY2s, s2 \in Scale2s, title \in Titles, date \in Dates,
     size \in ImageSizes, preview \in BOOLEAN :
    LET req == RasterRequest("Composite", img, bg, cx2, cy2, s2, title, date,
                             size, "none", preview)
    IN /\ request' = req
       /\ response' = CompositePOST(req)
       /\ UNCHANGED nonRasterVars

ExportFinal ==
  /\ request.op = "none"
  /\ \E img \in LineArtImages, bg \in BackgroundColors, cx2 \in CenterX2s,
     cy2 \in CenterY2s, s2 \in Scale2s, title \in Titles, date \in Dates,
     size \in RequestSizes, bleed \in RequestBleeds :
    LET req == RasterRequest("ExportFinal", img, bg, cx2, cy2, s2, title, date,
                             size, bleed, FALSE)
    IN /\ request' = req
       /\ response' = ExportFullPOST(req)
       /\ UNCHANGED nonRasterVars

Export ==
  /\ request.op = "none"
  /\ \E img \in LineArtImages, size \in RequestSizes, bleed \in RequestBleeds :
    LET req == RasterRequest("Export", img, "beige", 0, 0, 0, "", "",
                             size, bleed, FALSE)
    IN /\ request' = req
       /\ response' = ExportPOST(req)
       /\ UNCHANGED nonRasterVars

\* The response is returned; the routes keep nothing between requests.
Respond ==
  /\ request.op # "none"
  /\ request' = NoRequest
  /\ response' = NoResponse
  /\ UNCHANGED nonRasterVars

----------------------------------------------------------------------------
(* Calls of the canvas geometry resolver *)

Resolve ==
  \E size \in ImageSizes :
    /\ lastLabel' = size
    /\ canvasSpec' = getCanvasDimensions(size)
    /\ seen' = [seen EXCEPT ![size] = @ \cup {getCanvasDimensions(size)}]
    /\ UNCHANGED nonResolverVars

----------------------------------------------------------------------------
(* POST /api/apply-eraser *)

\* Exact fractions n/d with d > 0, for the route's floating-point values.
Rat(n, d) == [n |-> n, d |-> d]
RAdd(a, b) == [n |-> a.n * b.d + b.n * a.d, d |-> a.d * b.d]
RSub(a, b) == [n |-> a.n * b.d - b.n * a.d, d |-> a.d * b.d]
RMul(a, b) == [n |-> a.n * b.n, d |-> a.d * b.d]
RDiv(a, b) == [n |-> a.n * b.d, d |-> a.d * b.n]       \* b > 0
RLess(a, b) == a.n * b.d < b.n * a.d
RNonNeg(a) == a.n >= 0
RRound(a) == Round(a.n, a.d)

\* Raw RGBA pixels (after ensureAlpha).
WHITE == <<255, 255, 255, 255>>
INK == <<0, 0, 0, 255>>
CLEAR == <<255, 255, 255, 0>>
GREY == <<128, 128, 128, 255>>

\* lineArtImage: "overlay" for the bytes of a raster, "corrupt" for bytes
\* that are no image, "" for none; maskImage: "mask" or "" for none.
NoEraserReq ==
  [op |-> "none", lineArtImage |-> "", maskImage |-> "",
   canvasWidth |-> 0, canvasHeight |-> 0, red |-> <<>>,
   lineArtLeft2 |-> 0, lineArtTop2 |-> 0, lineArtWidth |-> 0, lineArtHeight |-> 0]

\* status 0: no answer yet.  decoded: the route read the overlay's metadata
\* and raw pixels; looped: it ran the pixel loop; returned: it sent back a
\* cleaned overlay.
NoEraserOut == [status |-> 0, decoded |-> FALSE, looped |-> FALSE, returned |-> FALSE]

\* What sharp makes of bytes that are no image: nothing with a size.
NoRaster == [width |-> 0, height |-> 0, px |-> <<>>]

\* sharp(lineArtBuffer).metadata() resolves, with a positive width and
\* height, for bytes that are an image; for any others it throws.
Readable_always(image) == TRUE
Readable(image) == image.width > 0 /\ image.height > 0

\* "If user didn't draw here, skip": red < 50 is skipped.
Drawn_anyRed(red) == ~(red < 1)
Drawn(red) == ~(red < 50)

\* Lines 68-87: the line art's actual box on the canvas and the scale from
\* canvas space to original space.
EraserGeometry_uncorrected(originalWidth, originalHeight, req) ==
  LET lineArtHeight == Rat(req.lineArtHeight, 1)
      actualLineArtAspect == Rat(originalWidth, originalHeight)
      actualLineArtWidth == RMul(lineArtHeight, actualLineArtAspect)
  IN [actualLineArtLeft |-> Rat(req.lineArtLeft2, 2),
      actualLineArtWidth |-> actualLineArtWidth,
      scaleX |-> RDiv(Rat(originalWidth, 1), actualLineArtWidth),
      scaleY |-> RDiv(Rat(originalHeight, 1), lineArtHeight)]

EraserGeometry(originalWidth, originalHeight, req) ==
  LET lineArtHeight == Rat(req.lineArtHeight, 1)
      actualLineArtAspect == Rat(originalWidth, originalHeight)
      actualLineArtWidth == RMul(lineArtHeight, actualLineArtAspect)
      assumedWidth == Rat(req.lineArtWidth, 1)
      widthDifference == RSub(assumedWidth, actualLineArtWidth)
      actualLineArtLeft == RAdd(Rat(req.lineArtLeft2, 2), RDiv(widthDifference, Rat(2, 1)))
  IN [actualLineArtLeft |-> actualLineArtLeft,
      actualLineArtWidth |-> actualLineArtWidth,
      scaleX |-> RDiv(Rat(originalWidth, 1), actualLineArtWidth),
      scaleY |-> RDiv(Rat(originalHeight, 1), lineArtHeight)]

\* Lines 102-112 for one canvas pixel: the index into the raw line art that
\* the pixel maps to, or -1 when it is outside the line art or the raster.
LineArtIndex(canvasX, canvasY, originalWidth, originalHeight, req) ==
  LET g == EraserGeometry(originalWidth, originalHeight, req)
      relativeX == RSub(Rat(canvasX, 1), g.actualLineArtLeft)
      relativeY == RSub(Rat(canvasY, 1), Rat(req.lineArtTop2, 2))
  IN IF /\ RNonNeg(relativeX) /\ RLess(relativeX, g.actualLineArtWidth)
        /\ RNonNeg(relativeY) /\ RLess(relativeY, Rat(req.lineArtHeight, 1))
     THEN LET origX == RRound(RMul(relativeX, g.scaleX))
              origY == RRound(RMul(relativeY, g.scaleY))
          IN IF origX >= 0 /\ origX < originalWidth /\ origY >= 0 /\ origY < originalHeight
             THEN origY * originalWidth + origX
             ELSE -1
     ELSE -1

\* What the loop writes into an erased pixel.
WhitenPixel_blend(old) == [k \in 1..4 |-> (old[k] + 255) \div 2]
WhitenPixel(old) == WHITE

\* The canvas pixels whose writes reach the raw line art (lines 93-123).
EraserHits(originalWidth, originalHeight, req) ==
  {c \in 0 .. (req.canvasWidth * req.canvasHeight - 1) :
     /\ Drawn(req.red[c + 1])
     /\ LineArtIndex(c % req.canvasWidth, c \div req.canvasWidth,
                     originalWidth, originalHeight, req) >= 0}

\* The whole route; image is what the bytes of req.lineArtImage hold.
ApplyEraserPOST_decodeFirst(image, req) ==
  IF ~Readable(image)
  THEN [status |-> 500, decoded |-> FALSE, looped |-> FALSE, returned |-> FALSE,
        eraseCount |-> 0, cleanedLineArt |-> image]
  ELSE IF req.lineArtImage = "" \/ req.maskImage = ""
  THEN [status |-> 400, decoded |-> TRUE, looped |-> FALSE, returned |-> FALSE,
        eraseCount |-> 0, cleanedLineArt |-> image]
  ELSE LET hits == EraserHits(image.width, image.height, req)
           written == {LineArtIndex(c % req.canvasWidth, c \div req.canvasWidth,
                                    image.width, image.height, req) : c \in hits}
       IN [status |-> 200, decoded |-> TRUE, looped |-> TRUE, returned |-> TRUE,
           eraseCount |-> Cardinality(hits),
           cleanedLineArt |->
             [width |-> image.width, height |-> image.height,
              px |-> [i \in 1 .. Len(image.px) |->
                        IF (i - 1) \in written THEN WhitenPixel(image.px[i])
                        ELSE image.px[i]]]]

ApplyEraserPOST(image, req) ==
  IF req.lineArtImage = "" \/ req.maskImage = ""
  THEN [status |-> 400, decoded |-> FALSE, looped |-> FALSE, returned |-> FALSE,
        eraseCount |-> 0, cleanedLineArt |-> image]
  ELSE IF ~Readable(image)
  \* metadata() throws; the catch answers 500
  THEN [status |-> 500, decoded |-> FALSE, looped |-> FALSE, returned |-> FALSE,
        eraseCount |-> 0, cleanedLineArt |-> image]
  ELSE LET hits == EraserHits(image.width, image.height, req)
           written == {LineArtIndex(c % req.canvasWidth, c \div req.canvasWidth,
                                    image.width, image.height, req) : c \in hits}
       IN [status |-> 200, decoded |-> TRUE, looped |-> TRUE, returned |-> TRUE,
           eraseCount |-> Cardinality(hits),
           cleanedLineArt |->
             [width |-> image.width, height |-> image.height,
              px |-> [i \in 1 .. Len(image.px) |->
                        IF (i - 1) \in written THEN WhitenPixel(image.px[i])
                        ELSE image.px[i]]]]

----------------------------------------------------------------------------
(* Eraser requests the model submits *)

EraserCanvasWidth == 6
EraserCanvasHeight == 8
MaxErasures == 2

\* Line art rasters: exactly 3:4, narrower and wider than 3:4 (one of them
\* much wider); all ink, or a pattern of ink, white, transparent and grey
\* pixels.
NativeSizes == {<<3, 4>>, <<2, 4>>, <<4, 3>>, <<4, 1>>}
PatternPixel(i) ==
  IF i % 4 = 0 THEN INK ELSE IF i % 4 = 1 THEN WHITE
  ELSE IF i % 4 = 2 THEN CLEAR ELSE GREY
LineArtImagesRaw ==
  {[width |-> n[1], height |-> n[2], px |-> [i \in 1 .. n[1] * n[2] |-> INK]] :
     n \in NativeSizes}
  \cup
  {[width |-> n[1], height |-> n[2], px |-> [i \in 1 .. n[1] * n[2] |-> PatternPixel(i)]] :
     n \in NativeSizes}

\* The mask after its resize to the canvas size (maskFullSize), red channel.
UniformMask(v) == [c \in 1 .. EraserCanvasWidth * EraserCanvasHeight |-> v]
DotMask(x, y) ==
  [c \in 1 .. EraserCanvasWidth * EraserCanvasHeight |->
     IF c - 1 = y * EraserCanvasWidth + x THEN 255 ELSE 0]
Masks ==
  {UniformMask(0), UniformMask(49), UniformMask(50), UniformMask(255)}
  \cup {DotMask(x, y) : x \in {0, 2, 5}, y \in {0, 3}}

\* Placement as the editor computes it: width = round(height * 3/4).
EraserRequests ==
  {[op |-> "ApplyEraser", lineArtImage |-> "overlay", maskImage |-> "mask",
    canvasWidth |-> EraserCanvasWidth, canvasHeight |-> EraserCanvasHeight,
    red |-> m, lineArtLeft2 |-> l2, lineArtTop2 |-> t2,
    lineArtWidth |-> Round(3 * h, 4), lineArtHeight |-> h] :
     m \in Masks, l2 \in {-2, 1, 4}, t2 \in {-3, 0}, h \in {4, 8}}

\* Requests that lack the overlay, the mask or both, or whose overlay bytes
\* are no image (the editor sends none of these; other callers can).
IncompleteEraserRequests ==
  {[r EXCEPT !.lineArtImage = b[1], !.maskImage = b[2]] :
     r \in {q \in EraserRequests : q.red = UniformMask(255) /\ q.lineArtTop2 = 0},
     b \in {<<"", "mask">>, <<"overlay", "">>, <<"", "">>, <<"corrupt", "mask">>}}

\* What the route decodes from the request's overlay bytes.
OverlayOf(req, held) == IF req.lineArtImage = "overlay" THEN held ELSE NoRaster

\* The request is posted with the overlay the editor holds and a painted
\* mask; a cleaned overlay that comes back replaces the one held, an error
\* answer leaves it.
ApplyEraser ==
  /\ eraserReq.op = "none" /\ erasures < MaxErasures
  /\ \E req \in EraserRequests \cup IncompleteEraserRequests :
       LET out == ApplyEraserPOST(OverlayOf(req, lineArt), req)
       IN /\ eraserReq' = req
          /\ eraserIn' = lineArt
          /\ eraserOut' = [status |-> out.status, decoded |-> out.decoded,
                           looped |-> out.looped, returned |-> out.returned]
          /\ lineArt' = IF out.status = 200 THEN out.cleanedLineArt ELSE lineArt
          /\ eraseCount' = out.eraseCount
          /\ repeat' = FALSE
  /\ UNCHANGED <<erasures, nonEraserVars>>

\* The same mask and placement are posted again with the returned overlay.
ApplyEraserAgain ==
  /\ eraserReq.op # "none" /\ eraserOut.status = 200 /\ ~repeat
  /\ LET out == ApplyEraserPOST(lineArt, eraserReq)
     IN /\ eraserIn' = lineArt
        /\ eraserOut' = [status |-> out.status, decoded |-> out.decoded,
                         looped |-> out.looped, returned |-> out.returned]
        /\ lineArt' = out.cleanedLineArt
        /\ eraseCount' = out.eraseCount
        /\ repeat' = TRUE
  /\ UNCHANGED <<eraserReq, erasures, nonEraserVars>>

\* setCleanedLineArt, clearMask: the editor keeps the overlay, the mask is
\* gone; after an error answer (setError) the overlay is the one it had.
EraserDone ==
  /\ eraserReq.op # "none"
  /\ eraserReq' = NoEraserReq
  /\ eraserOut' = NoEraserOut
  /\ eraserIn' = lineArt
  /\ eraseCount' = 0
  /\ repeat' = FALSE
  /\ erasures' = IF eraserOut.status = 200 THEN erasures + 1 ELSE erasures
  /\ UNCHANGED <<lineArt, nonEraserVars>>

----------------------------------------------------------------------------
(* Where the compositor draws the overlay: sharp's resize to the declared  *)
(* box with fit 'contain' and a transparent background.                    *)

\* The overlay is scaled by min(boxWidth/ow, boxHeight/oh) and centred in
\* the box; the rest of the box is transparent padding.
ContainFit(ow, oh, boxWidth, boxHeight) ==
  LET width == IF boxWidth * oh <= boxHeight * ow THEN boxWidth
               ELSE Max(1, Round(boxHeight * ow, oh))
      height == IF boxWidth * oh <= boxHeight * ow
                THEN Max(1, Round(boxWidth * oh, ow))
                ELSE boxHeight
  IN [width |-> width, height |-> height,
      padLeft |-> (boxWidth - width) \div 2,
      padTop |-> (boxHeight - height) \div 2]

\* The source pixel drawn at a canvas pixel, for the box the composite
\* route places at (round(left), round(top)); <<-1, -1>> where the canvas
\* pixel shows no overlay content.
DrawnSource(canvasX, canvasY, ow, oh, req) ==
  LET fit == ContainFit(ow, oh, req.lineArtWidth, req.lineArtHeight)
      x == canvasX - Round(req.lineArtLeft2, 2) - fit.padLeft
      y == canvasY - Round(req.lineArtTop2, 2) - fit.padTop
  IN IF x >= 0 /\ x < fit.width /\ y >= 0 /\ y < fit.height
     THEN <<((2 * x + 1) * ow) \div (2 * fit.width),
            ((2 * y + 1) * oh) \div (2 * fit.height)>>
     ELSE <<-1, -1>>

----------------------------------------------------------------------------
(* CompositeStep: the position sliders and the debounced preview request *)

DEBOUNCE_MS == 300
\* Model time advances in steps of TickMs; a timer callback that is due runs
\* at most MaxLateMs late; a session has at most MaxChanges slider changes.
TickMs == 100
MaxLateMs == 100
MaxChanges == 4

\* useState(defaultConfig.lineArtCenterX) etc. for an 18x24 order.
DefaultPlacement ==
  [lineArtCenterX |-> getCanvasDimensions("18x24").width \div 2,
   lineArtCenterY |-> (44 * getCanvasDimensions("18x24").height) \div 100,
   lineArtScale |-> getCanvasDimensions("18x24").height]

\* Positions of the three range inputs that the model moves between.
SliderValues ==
  [lineArtCenterX |-> {2700, 2800}, lineArtCenterY |-> {3168, 3300},
   lineArtScale |-> {7200, 7180}]

NoTimer == [armed |-> FALSE, elapsed |-> 0, config |-> DefaultPlacement]
NoSent == [n |-> 0, config |-> DefaultPlacement, preview |-> FALSE]
\* changes: slider changes in the current burst; quiet: ms since the last
\* one; sent: requests submitted since the burst began; total: all changes.
NoBurst == [changes |-> 0, quiet |-> 0, sent |-> 0, total |-> 0]

\* The debounce effect: the cleanup clears the pending timer and
\* setTimeout(..., 300) starts a new one, whose callback closes over the
\* state of the render that ran the effect.
SetTimeout(config) == [armed |-> TRUE, elapsed |-> 0, config |-> config]

\* A timer callback can run once its delay has elapsed.
TimerDue_atOnce(t) == t.armed /\ t.elapsed >= 0
TimerDue(t) == t.armed /\ t.elapsed >= DEBOUNCE_MS

\* performComposite(lineArt, true) with the configuration it closes over.
PerformComposite(config) == [n |-> sent.n + 1, config |-> config, preview |-> TRUE]

\* The two effects at mount: the first sets hasComposited and requests the
\* first preview; the second, run after it, finds hasComposited set and
\* starts the debounce timer.
MountEditor ==
  /\ ~hasComposited
  /\ hasComposited' = TRUE
  /\ sent' = PerformComposite(placement)
  /\ timer' = SetTimeout(placement)
  /\ UNCHANGED <<placement, burst, nonDebounceVars>>

\* What one input event can make of the placement p: onChange of a range
\* input sets one value, Reset to Default sets all three.
ChangedPlacements(p) ==
  (UNION {{[p EXCEPT ![f] = v] : v \in SliderValues[f]} : f \in DOMAIN SliderValues}
   \cup {DefaultPlacement}) \ {p}

\* A slider is moved (or the placement reset); the re-render runs the
\* debounce effect.
SliderChange ==
  /\ hasComposited /\ burst.total < MaxChanges
  /\ \E new \in ChangedPlacements(placement) :
       /\ placement' = new
       /\ timer' = SetTimeout(new)
       /\ burst' = IF burst.changes > 0 /\ burst.quiet < DEBOUNCE_MS
                   THEN [burst EXCEPT !.changes = @ + 1, !.quiet = 0, !.total = @ + 1]
                   ELSE [changes |-> 1, quiet |-> 0, sent |-> 0, total |-> burst.total + 1]
  /\ UNCHANGED <<hasComposited, sent, nonDebounceVars>>

\* TickMs pass.  A due callback runs within MaxLateMs.
Tick ==
  /\ hasComposited
  /\ ~(timer.armed /\ timer.elapsed >= DEBOUNCE_MS + MaxLateMs)
  /\ timer.armed \/ burst.quiet < DEBOUNCE_MS + MaxLateMs
  /\ timer' = IF timer.armed THEN [timer EXCEPT !.elapsed = @ + TickMs] ELSE timer
  /\ burst' = [burst EXCEPT !.quiet = Min(@ + TickMs, DEBOUNCE_MS + MaxLateMs)]
  /\ UNCHANGED <<placement, hasComposited, sent, nonDebounceVars>>

\* The timer callback: performComposite(cleanedLineArt || lineArtImage, true).
TimerFires ==
  /\ TimerDue(timer)
  /\ sent' = PerformComposite(timer.config)
  /\ timer' = NoTimer
  /\ burst' = IF burst.changes > 0 THEN [burst EXCEPT !.sent = @ + 1] ELSE burst
  /\ UNCHANGED <<placement, hasComposited, nonDebounceVars>>

----------------------------------------------------------------------------
(* The two AI transform steps of the wizard (AITransformStep at step 2,    *)
(* AutoTransformStep at step 3) and the requests they send to              *)
(* /api/transform.  The route makes one generateContent call per request.  *)

MaxOrders == 3            \* orders taken through the wizard
MaxOperatorActions == 2   \* Regenerate / Retry clicks per mounted step

\* Home at step 1 with no transform step mounted.  The component fields are
\* those of the step that is mounted: effectRuns counts runs of its mount
\* effect, requests the fetches it has started, pending those not yet
\* answered, operatorActions its Regenerate / Retry clicks;
\* transformedImage is 0 for '' and otherwise the number of the request
\* that produced the image; completeTimer is the pending onComplete timer.
\* Of Home's own state, orderData tells whether it differs from
\* INITIAL_ORDER_DATA (an image or order has been entered), and resetTimers
\* counts the 3 s timers of handleCompositeApprove that have not fired.
NoTransform ==
  [currentStep |-> 1, orders |-> 0, effectRuns |-> 0, hasTransformed |-> FALSE,
   isLoading |-> FALSE, error |-> FALSE, transformedImage |-> 0,
   requests |-> 0, pending |-> 0, operatorActions |-> 0, completeTimer |-> FALSE,
   orderData |-> FALSE, resetTimers |-> 0]

\* Home renders the given step: a transform step starts from its useState
\* and useRef initial values (isLoading is true in AutoTransformStep).
RenderStep(w, step) ==
  [NoTransform EXCEPT !.currentStep = step, !.orders = w.orders,
                      !.isLoading = (step = 3),
                      !.orderData = w.orderData, !.resetTimers = w.resetTimers]

\* handleReset: the order data and the images are cleared and step 1 shown.
handleReset(w) == [RenderStep(w, 1) EXCEPT !.orderData = FALSE]

\* handleImageSelect, handleOrderDataChange, handleCSVOrderSelect at step 1.
EnterOrder ==
  /\ wizard.currentStep = 1 /\ ~wizard.orderData
  /\ wizard' = [wizard EXCEPT !.orderData = TRUE]
  /\ UNCHANGED nonTransformVars

\* performTransformation up to its fetch.
performTransformation(w) ==
  [w EXCEPT !.isLoading = TRUE, !.error = FALSE,
            !.requests = @ + 1, !.pending = @ + 1]

\* One run of the mount effect.
MountEffect_unguarded(w) ==
  performTransformation([w EXCEPT !.hasTransformed = TRUE, !.effectRuns = @ + 1])
MountEffect(w) ==
  IF w.hasTransformed
  THEN [w EXCEPT !.effectRuns = @ + 1]
  ELSE performTransformation([w EXCEPT !.hasTransformed = TRUE, !.effectRuns = @ + 1])

\* handleStartProcess with an image chosen (canProceed).
StartProcess ==
  /\ wizard.currentStep = 1 /\ wizard.orderData /\ wizard.orders < MaxOrders
  /\ wizard' = RenderStep([wizard EXCEPT !.orders = @ + 1], 2)
  /\ UNCHANGED nonTransformVars

\* The commit that mounts a transform step.  Under React Strict Mode
\* (development) the mount effect runs a second time in the same commit,
\* with the state and refs of the first run.
MountTransformStep ==
  /\ wizard.currentStep \in {2, 3} /\ wizard.effectRuns = 0
  /\ \E strictMode \in BOOLEAN :
       wizard' = IF strictMode THEN MountEffect(MountEffect(wizard))
                 ELSE MountEffect(wizard)
  /\ UNCHANGED nonTransformVars

\* The fetch resolves with an image.  AutoTransformStep also starts the
\* 1500 ms timer that calls onComplete.
TransformOk ==
  /\ wizard.pending > 0
  /\ wizard' = [wizard EXCEPT !.pending = @ - 1, !.isLoading = FALSE,
                              !.transformedImage = wizard.requests,
                              !.completeTimer = (wizard.currentStep = 3)]
  /\ UNCHANGED nonTransformVars

\* The fetch fails or the route answers with an error status.
TransformFails ==
  /\ wizard.pending > 0
  /\ wizard' = [wizard EXCEPT !.pending = @ - 1, !.isLoading = FALSE,
                              !.error = TRUE]
  /\ UNCHANGED nonTransformVars

\* handleRegenerate; the button is disabled while loading and before there
\* is a result or an error.
Regenerate ==
  /\ wizard.currentStep = 2 /\ wizard.effectRuns > 0
  /\ ~wizard.isLoading /\ (wizard.error \/ wizard.transformedImage # 0)
  /\ wizard.operatorActions < MaxOperatorActions
  /\ wizard' = performTransformation(
                  [wizard EXCEPT !.hasTransformed = FALSE, !.operatorActions = @ + 1])
  /\ UNCHANGED nonTransformVars

\* handleRetry; the button is rendered only while there is an error.
Retry ==
  /\ wizard.currentStep = 3 /\ wizard.effectRuns > 0
  /\ wizard.error
  /\ wizard.operatorActions < MaxOperatorActions
  /\ wizard' = performTransformation(
                  [wizard EXCEPT !.hasTransformed = FALSE, !.operatorActions = @ + 1])
  /\ UNCHANGED nonTransformVars

\* handleApprove -> handleFirstTransformApprove.
Approve ==
  /\ wizard.currentStep = 2 /\ wizard.effectRuns > 0
  /\ ~wizard.isLoading /\ wizard.transformedImage # 0
  /\ wizard' = RenderStep(wizard, 3)
  /\ UNCHANGED nonTransformVars

\* onBack -> handleBackToStep1.
Back ==
  /\ wizard.currentStep = 2 /\ wizard.effectRuns > 0
  /\ ~wizard.isLoading
  /\ wizard' = RenderStep(wizard, 1)
  /\ UNCHANGED nonTransformVars

\* The onComplete timer -> handleSecondTransformComplete.
Complete ==
  /\ wizard.currentStep = 3 /\ wizard.completeTimer
  /\ wizard' = RenderStep(wizard, 4)
  /\ UNCHANGED nonTransformVars

\* handleCompositeApprove: the success screen, and a 3 s timer is started.
CompositeApprove ==
  /\ wizard.currentStep = 4
  /\ wizard' = RenderStep([wizard EXCEPT !.resetTimers = @ + 1], 5)
  /\ UNCHANGED nonTransformVars

\* Redo Process / Start Over in the composite step (onRedo).
RedoProcess ==
  /\ wizard.currentStep = 4
  /\ wizard' = handleReset(wizard)
  /\ UNCHANGED nonTransformVars

\* Start New Order on the success screen.
StartNewOrder ==
  /\ wizard.currentStep = 5
  /\ wizard' = handleReset(wizard)
  /\ UNCHANGED nonTransformVars

\* A 3 s timer of handleCompositeApprove fires: handleReset.  Nothing clears
\* the timer, so it fires whatever Home shows by then.
Reset ==
  /\ wizard.resetTimers > 0
  /\ wizard' = handleReset([wizard EXCEPT !.resetTimers = @ - 1])
  /\ UNCHANGED nonTransformVars

----------------------------------------------------------------------------
(* Authentication: the login and verify routes, the middleware, and the    *)
(* AuthProvider of the root layout.                                        *)

MaxLogins == 2            \* login attempts

\* A path is the sequence of the pieces its string is cut into (the cuts are
\* at the ends of the prefixes the middleware tests), so that startsWith is
\* the prefix test on sequences.
LOGIN_PATH == <<"/login">>
Pages == {<<"/">>, <<"/test-composite">>, LOGIN_PATH, <<"/login", "/help">>}
Resources ==
  {<<"/api/auth/login">>, <<"/api/auth/verify">>, <<"/api/composite">>,
   <<"/api/export-full">>, <<"/_next/static", "/chunk.js">>, <<"/logo", ".png">>}
publicPaths == {<<"/login">>, <<"/api/auth/login">>, <<"/api/auth/verify">>}

StartsWith(path, prefix) ==
  Len(path) >= Len(prefix) /\ SubSeq(path, 1, Len(prefix)) = prefix

isPublicPath(path) == \E publicPath \in publicPaths : StartsWith(path, publicPath)

\* config.matcher: every path except those that begin with _next/static,
\* _next/image or favicon.ico or contain .png, .jpg, .jpeg, .gif or .svg.
Matched(path) ==
  /\ path[1] \notin {"/_next/static", "/_next/image", "/favicon.ico"}
  /\ \A i \in 1 .. Len(path) : path[i] \notin {".png", ".jpg", ".jpeg", ".gif", ".svg"}

\* A token is a string: the empty one, or base64 of "username:Date.now()",
\* kept as the pair it encodes (base64 is one-to-one), or any other string.
NoToken == <<>>
IssuedToken(username, now) == <<username, now>>
ForgedTokens == {<<"x">>, <<"admin", 0>>}

validUsername == "admin"
validPassword == "password123"

\* POST /api/auth/login.
LoginPOST(username, password, now) ==
  IF username = validUsername /\ password = validPassword
  THEN [status |-> 200, token |-> IssuedToken(username, now)]
  ELSE [status |-> 401, token |-> NoToken]

\* POST /api/auth/verify.  Buffer.from(token, "base64") does not throw for
\* any string.
VerifyPOST(token) ==
  IF Len(token) > 0 THEN [status |-> 200, valid |-> TRUE]
  ELSE [status |-> 401, valid |-> FALSE]

\* The middleware's answer for a request that carries the given auth_token
\* cookie ("" and absent are both falsy).
middleware(path, token) ==
  IF isPublicPath(path) THEN "next"
  ELSE IF token = NoToken THEN "redirect"
  ELSE "next"

\* What the server does with a request: paths the matcher leaves out do not
\* reach the middleware.
Decide(path, token) == IF Matched(path) THEN middleware(path, token) ELSE "next"

NoDecision ==
  [path |-> LOGIN_PATH, token |-> NoToken, outcome |-> "none",
   browser |-> FALSE, afterLogout |-> FALSE]
NoVerdict == [token |-> NoToken, status |-> 0, valid |-> FALSE]

\* The browser on the login page, nothing stored.  localStorage and cookie
\* are the two auth_token stores, checking the tokens of the checkAuth
\* calls that await /api/auth/verify, issued the tokens login has issued,
\* loggedOut whether logout ran since the last successful login, last the
\* last request the server decided, verified the last verify call.
NoAuth ==
  [localStorage |-> NoToken, cookie |-> NoToken, pathname |-> LOGIN_PATH,
   isAuthenticated |-> FALSE, checking |-> {}, issued |-> {}, now |-> 1,
   loggedOut |-> FALSE, last |-> NoDecision, verified |-> NoVerdict]

\* The login page keeps the token of a successful login in both stores.
StoreLogin(a, token) ==
  [a EXCEPT !.localStorage = token, !.cookie = token, !.loggedOut = FALSE]

\* The login form is submitted.
LoginSubmit ==
  /\ auth.pathname = LOGIN_PATH /\ auth.now <= MaxLogins
  /\ \E username \in {"admin", "guest"}, password \in {"password123", "letmein"} :
       LET out == LoginPOST(username, password, auth.now)
           a == [auth EXCEPT !.now = @ + 1]
       IN auth' = IF out.status = 200
                  THEN StoreLogin([a EXCEPT !.issued = @ \cup {out.token}], out.token)
                  ELSE a
  /\ UNCHANGED nonAuthVars

\* The AuthProvider effect for the page now shown: nothing on /login; with
\* no stored token, to /login; otherwise checkAuth asks /api/auth/verify.
AuthEffect(a) ==
  IF a.pathname = LOGIN_PATH THEN a
  ELSE IF a.localStorage = NoToken
       THEN [a EXCEPT !.isAuthenticated = FALSE, !.pathname = LOGIN_PATH]
       ELSE [a EXCEPT !.checking = @ \cup {a.localStorage}]

\* The browser asks for a page, with its cookie.
Navigate ==
  /\ \E path \in Pages :
       LET outcome == Decide(path, auth.cookie)
           a == [auth EXCEPT !.last = [path |-> path, token |-> auth.cookie,
                                       outcome |-> outcome, browser |-> TRUE,
                                       afterLogout |-> auth.loggedOut]]
       IN auth' = IF outcome = "redirect"
                  THEN [a EXCEPT !.pathname = LOGIN_PATH]
                  ELSE AuthEffect([a EXCEPT !.pathname = path])
  /\ UNCHANGED nonAuthVars

\* The browser asks for a route or a file, with its cookie.
Fetch ==
  /\ \E path \in Resources :
       auth' = [auth EXCEPT !.last = [path |-> path, token |-> auth.cookie,
                                      outcome |-> Decide(path, auth.cookie),
                                      browser |-> TRUE,
                                      afterLogout |-> auth.loggedOut]]
  /\ UNCHANGED nonAuthVars

\* checkAuth after its fetch of /api/auth/verify has answered.
VerifyResponse ==
  /\ \E token \in auth.checking :
       LET out == VerifyPOST(token)
           a == [auth EXCEPT !.checking = @ \ {token}]
       IN auth' = IF out.status = 200
                  THEN [a EXCEPT !.isAuthenticated = out.valid, !.cookie = token,
                                 !.pathname = IF out.valid THEN @ ELSE LOGIN_PATH]
                  ELSE [a EXCEPT !.isAuthenticated = FALSE, !.localStorage = NoToken,
                                 !.pathname = LOGIN_PATH]
  /\ UNCHANGED nonAuthVars

\* checkAuth when the fetch itself fails (the catch branch).
VerifyUnreachable ==
  /\ \E token \in auth.checking :
       auth' = [auth EXCEPT !.checking = @ \ {token}, !.isAuthenticated = FALSE,
                            !.pathname = LOGIN_PATH]
  /\ UNCHANGED nonAuthVars

\* logout, from a page of the application.
Logout ==
  /\ auth.pathname # LOGIN_PATH
  /\ auth' = [auth EXCEPT !.localStorage = NoToken, !.cookie = NoToken,
                          !.isAuthenticated = FALSE, !.pathname = LOGIN_PATH,
                          !.loggedOut = TRUE]
  /\ UNCHANGED nonAuthVars

\* Any client asks for any path with any auth_token cookie.
ForeignRequest ==
  /\ \E path \in Pages \cup Resources,
        token \in {NoToken} \cup ForgedTokens \cup auth.issued :
       auth' = [auth EXCEPT !.last = [path |-> path, token |-> token,
                                      outcome |-> Decide(path, token),
                                      browser |-> FALSE, afterLogout |-> FALSE]]
  /\ UNCHANGED nonAuthVars

\* Any client asks /api/auth/verify about any token.
VerifyCall ==
  /\ \E token \in {NoToken} \cup ForgedTokens \cup auth.issued :
       LET out == VerifyPOST(token)
       IN auth' = [auth EXCEPT !.verified = [token |-> token, status |-> out.status,
                                             valid |-> out.valid]]
  /\ UNCHANGED nonAuthVars

----------------------------------------------------------------------------
(* CSV orders: skuDecoder.ts.  A SKU is kept as the sequence of the parts  *)
(* that split("-") gives; a description as the sequence of the phrases in  *)
(* it that the size patterns and labels look for.                          *)

SKU_BLEED_MAP == [s \in {"62", "63", "64", "69"} |->
  IF s = "62" THEN "450px" ELSE IF s = "63" THEN "none" ELSE "20px"]

\* decodeBleedFromSKU.
decodeBleedFromSKU(sku) ==
  LET suffix == sku[Len(sku)]
  IN IF suffix \in DOMAIN SKU_BLEED_MAP THEN SKU_BLEED_MAP[suffix] ELSE "none"

\* isLineArtSKU: /^100-35-11194-(?:62|63|64|69)$/.
isLineArtSKU(sku) ==
  /\ Len(sku) = 4
  /\ sku[1] = "100" /\ sku[2] = "35" /\ sku[3] = "11194"
  /\ sku[4] \in {"62", "63", "64", "69"}

\* The size patterns in the order they are tried, and the labels after them.
sizePatterns ==
  << <<"30x40", "30x40">>, <<"24x36", "24x36">>, <<"24x32", "24x32">>,
     <<"20x30", "20x30">>, <<"18x24", "18x24">>, <<"16x24", "16x24">>,
     <<"12x16", "12x16">>, <<"9x12", "9x12">>, <<"8x10", "9x12">>,
     <<"XL", "30x40">>, <<"supersized", "30x40">>,
     <<"L -", "24x32">>, <<"big love", "24x32">>,
     <<"M -", "18x24">>, <<"go-to size", "18x24">>,
     <<"S -", "12x16">>, <<"small step", "12x16">>,
     <<"XS", "9x12">>, <<"tiny", "9x12">> >>

Mentions(description, phrase) == \E i \in 1 .. Len(description) : description[i] = phrase

\* extractSizeFromDescription; "" stands for null.
extractSizeFromDescription(description) ==
  LET hits == {i \in 1 .. Len(sizePatterns) : Mentions(description, sizePatterns[i][1])}
  IN IF hits = {} THEN ""
     ELSE sizePatterns[CHOOSE i \in hits : \A j \in hits : i <= j][2]

NoOrder ==
  [orderId |-> "", fullOrderNumber |-> "", sku |-> <<>>, size |-> "18x24",
   bleed |-> "none"]

\* parseLineArtOrder (the fields the order's size and bleed depend on, and
\* the order number); returned is FALSE for null.
parseLineArtOrder(row) ==
  IF ~isLineArtSKU(row.SKU) THEN [returned |-> FALSE, order |-> NoOrder]
  ELSE LET found == extractSizeFromDescription(row.description)
       IN [returned |-> TRUE,
           order |-> [orderId |-> row.orderId,
                      fullOrderNumber |-> IF row.Id # "" THEN <<row.orderId, "_", row.Id>>
                                          ELSE <<row.orderId>>,
                      sku |-> row.SKU,
                      size |-> IF found # "" THEN found ELSE "18x24",
                      bleed |-> decodeBleedFromSKU(row.SKU)]]

Skus ==
  {<<"100", "35", "11194", "62">>, <<"100", "35", "11194", "63">>,
   <<"100", "35", "11194", "64">>, <<"100", "35", "11194", "69">>,
   <<"100", "35", "11194", "65">>, <<"100", "35", "22222", "62">>,
   <<"100", "35", "11194", "64", "1">>, <<"">>}
Descriptions ==
  {<<>>, <<"18x24">>, <<"24x36">>, <<"16x24">>, <<"20x30">>, <<"8x10">>,
   <<"XL">>, <<"24x36", "XL">>, <<"go-to size">>}
CsvRows ==
  [SKU : Skus, description : Descriptions,
   orderId : {"", "350406249"}, Id : {"", "481088"}]

NoCsv ==
  [row |-> [SKU |-> <<"">>, description |-> <<>>, orderId |-> "", Id |-> ""],
   returned |-> FALSE, order |-> NoOrder, rows |-> 0]

\* parseCSVText's loop body for one row.
ParseRow ==
  /\ \E row \in CsvRows :
       LET out == parseLineArtOrder(row)
       IN csv' = [row |-> row, returned |-> out.returned, order |-> out.order,
                  rows |-> 1]
  /\ UNCHANGED nonCsvVars

----------------------------------------------------------------------------
(* CompositeStep as a whole: the overlay it holds, its requests to         *)
(* /api/composite, /api/apply-eraser and /api/export-full, and their       *)
(* responses, which arrive in any order.                                   *)

MaxSliderChanges == 1         \* slider changes in one editor session
MaxEraserApplications == 1    \* Apply Eraser clicks in one editor session

\* Sizes of the orders edited: one 3:4 label and the 2:3 labels.
EditorSizes == {"18x24", "16x24", "20x30", "24x36"}

\* Overlays are numbered: 0 is the lineArtImage prop (the original), k > 0
\* the overlay returned by the k-th successful apply-eraser request.
\* cleanedLineArt 0 stands for ''.
lineArtImage == 0
SliderPositions == {0, 1}     \* 0: the default; 1: centre moved right by 100

NoEditorTimer == [armed |-> FALSE, lineArt |-> 0, placement |-> 0]
NoPreview == [n |-> 0, lineArt |-> 0, placement |-> 0, width |-> 0, height |-> 0]
NoEraserCall ==
  [pending |-> FALSE, lineArt |-> 0, cleanedThen |-> 0, placement |-> 0,
   canvasWidth |-> 0, canvasHeight |-> 0, previewWidth |-> 0, previewHeight |-> 0]
NoExportCall ==
  [pending |-> FALSE, lineArt |-> 0, cleanedThen |-> 0, placement |-> 0,
   width |-> 0, height |-> 0]

\* The component before it is mounted.  requests counts the composite
\* requests submitted; inFlight holds those not yet answered; compositeImage
\* is the preview shown, with the number of the request that produced it.
NoEditor ==
  [mounted |-> FALSE, size |-> "18x24", cleanedLineArt |-> 0, placement |-> 0,
   eraserMode |-> FALSE, isApplyingEraser |-> FALSE, isExporting |-> FALSE,
   hasComposited |-> FALSE, timer |-> NoEditorTimer,
   requests |-> 0, inFlight |-> {}, compositeImage |-> NoPreview,
   eraserCall |-> NoEraserCall, exportCall |-> NoExportCall,
   sliderChanges |-> 0, erasures |-> 0]

\* cleanedLineArt || lineArtImage
HeldLineArt(e) == IF e.cleanedLineArt # 0 THEN e.cleanedLineArt ELSE lineArtImage

\* The slider state in halves: the defaults of getDefaultConfig(size), the
\* horizontal centre moved by the position of its range input.
EditorPlacement(size, position) ==
  LET canvas == getCanvasDimensions(size)
  IN [lineArtCenterX2 |-> canvas.width + 200 * position,
      lineArtCenterY2 |-> (88 * canvas.height) \div 100,
      lineArtScale2 |-> 2 * canvas.height]

\* The body performComposite and handleExportAndDownload build.
EditorRequest(op, size, position, preview) ==
  LET p == EditorPlacement(size, position)
  IN RasterRequest(op, "png", "beige", p.lineArtCenterX2, p.lineArtCenterY2,
                   p.lineArtScale2, "", "", size, "none", preview)

\* performComposite(lineArt, true), called from a render whose slider state
\* is position: the request joins those in flight.  In every request
\* cleanedThen records the overlay the component held when the request was
\* submitted.
performComposite(e, overlay, position, afterEraser) ==
  [e EXCEPT !.requests = @ + 1,
            !.inFlight = @ \cup {[n |-> e.requests + 1, lineArt |-> overlay,
                                  placement |-> position,
                                  cleanedThen |-> HeldLineArt(e),
                                  afterEraser |-> afterEraser]}]

\* The debounce effect of a render: setTimeout with a callback that closes
\* over that render's cleanedLineArt and slider state.
EditorSetTimeout(e) ==
  [e EXCEPT !.timer = [armed |-> TRUE, lineArt |-> HeldLineArt(e),
                       placement |-> e.placement]]

\* Home renders CompositeStep for an order of the given size; the mount
\* effect requests the first preview and the debounce effect, run after it,
\* starts its timer.
EditorMount ==
  /\ ~editor.mounted
  /\ \E size \in EditorSizes :
       LET e == [NoEditor EXCEPT !.mounted = TRUE, !.size = size,
                                 !.hasComposited = TRUE]
       IN editor' = EditorSetTimeout(performComposite(e, lineArtImage, 0, FALSE))
  /\ UNCHANGED nonEditorVars

\* onChange of a range input or Reset to Default (rendered outside eraser
\* mode, once there is a preview); the re-render runs the debounce effect,
\* whose cleanup clears the earlier timer.
EditorSliderChange ==
  /\ editor.mounted /\ editor.compositeImage.n > 0 /\ ~editor.eraserMode
  /\ editor.sliderChanges < MaxSliderChanges
  /\ \E position \in SliderPositions \ {editor.placement} :
       editor' = EditorSetTimeout([editor EXCEPT !.placement = position,
                                                 !.sliderChanges = @ + 1])
  /\ UNCHANGED nonEditorVars

\* The debounce timer's callback.
EditorTimerFires ==
  /\ editor.mounted /\ editor.timer.armed
  /\ editor' = performComposite([editor EXCEPT !.timer = NoEditorTimer],
                                editor.timer.lineArt, editor.timer.placement, FALSE)
  /\ UNCHANGED nonEditorVars

\* A composite request is answered: setCompositeImage(data.imageData), or
\* setError for an error answer.  When applyEraser awaited the request it
\* then clears the mask, leaves eraser mode and ends its applying state.
CompositeResponse ==
  /\ editor.mounted
  /\ \E r \in editor.inFlight, ok \in BOOLEAN :
       LET out == CompositePOST(EditorRequest("Composite", editor.size,
                                              r.placement, TRUE))
           shown == IF ok /\ out.status = 200
                    THEN [n |-> r.n, lineArt |-> r.lineArt, placement |-> r.placement,
                          width |-> out.width, height |-> out.height]
                    ELSE editor.compositeImage
       IN editor' = [editor EXCEPT
                       !.inFlight = @ \ {r},
                       !.compositeImage = shown,
                       !.eraserMode = IF r.afterEraser THEN FALSE ELSE @,
                       !.isApplyingEraser = IF r.afterEraser THEN FALSE ELSE @]
  /\ UNCHANGED nonEditorVars

\* Use Eraser Tool.
UseEraserTool ==
  /\ editor.mounted /\ editor.compositeImage.n > 0 /\ ~editor.eraserMode
  /\ editor' = [editor EXCEPT !.eraserMode = TRUE]
  /\ UNCHANGED nonEditorVars

\* Cancel in the eraser panel (also while a request is being applied).
CancelEraser ==
  /\ editor.mounted /\ editor.compositeImage.n > 0 /\ editor.eraserMode
  /\ editor' = [editor EXCEPT !.eraserMode = FALSE]
  /\ UNCHANGED nonEditorVars

\* applyEraser up to its fetch: the overlay held, the placement of the
\* current slider state and the canvas of the order's size are sent.  The
\* call also records the size of the preview image the mask was painted on.
applyEraser ==
  /\ editor.mounted /\ editor.compositeImage.n > 0 /\ editor.eraserMode
  /\ ~editor.isApplyingEraser /\ editor.erasures < MaxEraserApplications
  /\ editor' = [editor EXCEPT
                  !.isApplyingEraser = TRUE, !.erasures = @ + 1,
                  !.eraserCall =
                    [pending |-> TRUE, lineArt |-> HeldLineArt(editor),
                     cleanedThen |-> HeldLineArt(editor),
                     placement |-> editor.placement,
                     canvasWidth |-> getCanvasDimensions(editor.size).width,
                     canvasHeight |-> getCanvasDimensions(editor.size).height,
                     previewWidth |-> editor.compositeImage.width,
                     previewHeight |-> editor.compositeImage.height]]
  /\ UNCHANGED nonEditorVars

\* The apply-eraser request is answered.  With a cleaned overlay:
\* setCleanedLineArt, then performComposite of the render in which Apply was
\* clicked, with the cleaned overlay.  With an error: setError, and the
\* applying state ends.
EraserResponse ==
  /\ editor.mounted /\ editor.eraserCall.pending
  /\ \E ok \in BOOLEAN :
       editor' =
         IF ok
         THEN LET cleaned == editor.cleanedLineArt + 1
                  e == [editor EXCEPT !.cleanedLineArt = cleaned,
                                      !.eraserCall.pending = FALSE]
              IN performComposite(e, cleaned, editor.eraserCall.placement, TRUE)
         ELSE [editor EXCEPT !.eraserCall.pending = FALSE,
                             !.isApplyingEraser = FALSE]
  /\ UNCHANGED nonEditorVars

\* handleExportAndDownload up to its fetch; width and height are the canvas
\* /api/export-full composites on for this request.
handleExportAndDownload ==
  /\ editor.mounted /\ editor.compositeImage.n > 0 /\ ~editor.eraserMode
  /\ ~editor.isExporting
  /\ LET out == ExportFullPOST(EditorRequest("ExportFinal", editor.size,
                                             editor.placement, FALSE))
     IN editor' = [editor EXCEPT
                     !.isExporting = TRUE,
                     !.exportCall =
                       [pending |-> TRUE, lineArt |-> HeldLineArt(editor),
                        cleanedThen |-> HeldLineArt(editor),
                        placement |-> editor.placement,
                        width |-> out.canvas.width, height |-> out.canvas.height]]
  /\ UNCHANGED nonEditorVars

\* The export is answered: the download and onApprove, after which Home
\* leaves step 4 and the component is unmounted; or an error.
ExportResponse ==
  /\ editor.mounted /\ editor.exportCall.pending
  /\ \E ok \in BOOLEAN :
       editor' = IF ok THEN NoEditor
                 ELSE [editor EXCEPT !.exportCall.pending = FALSE,
                                     !.isExporting = FALSE]
  /\ UNCHANGED nonEditorVars

\* Redo Process: Home goes back to step 1.
EditorRedo ==
  /\ editor.mounted /\ editor.compositeImage.n > 0 /\ ~editor.eraserMode
  /\ editor' = NoEditor
  /\ UNCHANGED nonEditorVars

----------------------------------------------------------------------------
(* Specifications *)

Init ==
  /\ request = NoRequest
  /\ response = NoResponse
  /\ lastLabel = ""
  /\ canvasSpec = [width |-> 0, height |-> 0, aspectRatio |-> ""]
  /\ seen = [s \in ImageSizes |-> {}]
  /\ lineArt = [width |-> 3, height |-> 4, px |-> [i \in 1 .. 12 |-> INK]]
  /\ eraserReq = NoEraserReq
  /\ eraserOut = NoEraserOut
  /\ eraserIn = lineArt
  /\ eraseCount = 0
  /\ repeat = FALSE
  /\ erasures = 0
  /\ placement = DefaultPlacement
  /\ hasComposited = FALSE
  /\ timer = NoTimer
  /\ sent = NoSent
  /\ burst = NoBurst
  /\ wizard = NoTransform
  /\ auth = NoAuth
  /\ csv = NoCsv
  /\ editor = NoEditor

Next == Composite \/ ExportFinal \/ Export \/ Respond

Spec == Init /\ [][Next]_vars

NextResolver == Resolve

SpecResolver == Init /\ [][NextResolver]_vars

InitEraser ==
  /\ request = NoRequest
  /\ response = NoResponse
  /\ lastLabel = ""
  /\ canvasSpec = [width |-> 0, height |-> 0, aspectRatio |-> ""]
  /\ seen = [s \in ImageSizes |-> {}]
  /\ lineArt \in LineArtImagesRaw
  /\ eraserReq = NoEraserReq
  /\ eraserOut = NoEraserOut
  /\ eraserIn = lineArt
  /\ eraseCount = 0
  /\ repeat = FALSE
  /\ erasures = 0
  /\ placement = DefaultPlacement
  /\ hasComposited = FALSE
  /\ timer = NoTimer
  /\ sent = NoSent
  /\ burst = NoBurst
  /\ wizard = NoTransform
  /\ auth = NoAuth
  /\ csv = NoCsv
  /\ editor = NoEditor

NextEraser == ApplyEraser \/ ApplyEraserAgain \/ EraserDone

SpecEraser == InitEraser /\ [][NextEraser]_vars

\* All four routes, taking one request at a time: raster requests while the
\* editor has kept no cleaned overlay yet, eraser requests between them.
NextRoutes ==
  \/ (eraserReq.op = "none" /\ erasures = 0 /\ Next)
  \/ (request.op = "none" /\ NextEraser)

SpecRoutes == Init /\ [][NextRoutes]_vars

NextDebounce == MountEditor \/ SliderChange \/ Tick \/ TimerFires

\* The event loop runs a due timer callback unless it is cleared first.
SpecDebounce == Init /\ [][NextDebounce]_vars /\ WF_vars(TimerFires)

NextTransform ==
  \/ StartProcess \/ MountTransformStep \/ TransformOk \/ TransformFails
  \/ Regenerate \/ Retry \/ Approve \/ Back \/ Complete
  \/ CompositeApprove \/ Reset
  \/ EnterOrder \/ RedoProcess \/ StartNewOrder

SpecTransform == Init /\ [][NextTransform]_vars

NextAuth ==
  \/ LoginSubmit \/ Navigate \/ Fetch \/ VerifyResponse \/ VerifyUnreachable
  \/ Logout \/ ForeignRequest \/ VerifyCall

SpecAuth == Init /\ [][NextAuth]_vars

NextCsv == ParseRow

SpecCsv == Init /\ [][NextCsv]_vars

NextEditor ==
  \/ EditorMount \/ EditorSliderChange \/ EditorTimerFires \/ CompositeResponse
  \/ UseEraserTool \/ CancelEraser \/ applyEraser \/ EraserResponse
  \/ handleExportAndDownload \/ ExportResponse \/ EditorRedo

SpecEditor == Init /\ [][NextEditor]_vars

----------------------------------------------------------------------------
(* Properties of the canvas lookup, the compositor and the exporters *)

\* What the size labels say, in inches, and the print resolution.
LabelInches ==
  ("30x40" :> <<30, 40>>) @@ ("24x36" :> <<24, 36>>) @@ ("24x32" :> <<24, 32>>) @@
  ("20x30" :> <<20, 30>>) @@ ("18x24" :> <<18, 24>>) @@ ("16x24" :> <<16, 24>>) @@
  ("12x16" :> <<12, 16>>) @@ ("9x12" :> <<9, 12>>)

LabelClass(size) ==
  IF 4 * LabelInches[size][1] = 3 * LabelInches[size][2] THEN "3:4" ELSE "2:3"

ClassCanvas(class) ==
  IF class = "3:4" THEN [width |-> 5400, height |-> 7200]
  ELSE [width |-> 5400, height |-> 8100]

Succeeded(op) == request.op = op /\ response.status = 200

\* C1: for every supported size label the raster returned by Composite has
\* the canvas dimensions of the label's aspect class (5400x7200 for 3:4,
\* 5400x8100 for 2:3) in full mode and exactly half of them in preview mode.
C1_CompositeMatchesLabelCanvas ==
  Succeeded("Composite") =>
    LET c == ClassCanvas(LabelClass(request.size))
    IN IF request.preview
       THEN 2 * response.width = c.width /\ 2 * response.height = c.height
       ELSE response.width = c.width /\ response.height = c.height

\* C2: for every size label and bleed code the image returned by ExportFinal
\* and by Export is (target + 2*bleedPx) wide and high, target being the
\* label's size at 300 DPI; bleed 'none' skips the padding and returns the
\* target size; 30x40 with 450px gives 9900 x 12900.
ClaimedBleedPx(bleed) ==
  IF bleed = "450px" THEN 450 ELSE IF bleed = "20px" THEN 20 ELSE 0

C2_FinalDimensions ==
  ((Succeeded("ExportFinal") \/ Succeeded("Export"))
   /\ request.size \in ImageSizes /\ request.bleed \in BleedTypes) =>
    LET tw == 300 * LabelInches[request.size][1]
        th == 300 * LabelInches[request.size][2]
        b == ClaimedBleedPx(request.bleed)
    IN /\ response.width = tw + 2 * b
       /\ response.height = th + 2 * b
       /\ (request.bleed = "none") =>
             (~response.padded /\ response.width = tw /\ response.height = th)
       /\ (request.size = "30x40" /\ request.bleed = "450px") =>
             (response.width = 9900 /\ response.height = 12900)

C2_Witness ==
  /\ Succeeded("ExportFinal")
  /\ request.size = "30x40" /\ request.bleed = "450px"
  /\ response.padded /\ response.width = 9900 /\ response.height = 12900

\* C3: getCanvasDimensions returns, for every supported label, an aspect
\* class in {3:4, 2:3} with exactly the width and height the lookup table
\* holds for that class, the same on every call; 18x24 gives 5400 x 7200.
C3_ResolverMatchesTable ==
  /\ lastLabel # "" =>
       /\ canvasSpec.aspectRatio \in {"3:4", "2:3"}
       /\ canvasSpec.width = CANVAS_DIMENSIONS[canvasSpec.aspectRatio].width
       /\ canvasSpec.height = CANVAS_DIMENSIONS[canvasSpec.aspectRatio].height
       /\ canvasSpec \in seen[lastLabel]
       /\ lastLabel = "18x24" => (canvasSpec.width = 5400 /\ canvasSpec.height = 7200)
  /\ \A s \in ImageSizes : Cardinality(seen[s]) <= 1

C3_Witness ==
  /\ lastLabel = "18x24" /\ canvasSpec.width = 5400 /\ canvasSpec.height = 7200
  /\ seen["18x24"] # {} /\ seen["24x36"] # {}

\* C4: Composite and ExportFinal compute the overlay rectangle as
\* width = round(scaleHeight * 3/4), height = round(scaleHeight),
\* top = round(centerY - height/2), left = round(centerX - width/2),
\* so that all four values are integers (for Composite the configuration
\* is the one already scaled for the resolution mode).
C4_RectangleRounded ==
  response.placed =>
    LET height == Round(response.scaled.scale2, 2)
        width == Round(3 * response.scaled.scale2, 8)
    IN /\ response.rect.height2 = 2 * height
       /\ response.rect.width = width
       /\ response.rect.top = Round(response.scaled.centerY2 - height, 2)
       /\ response.rect.left = Round(response.scaled.centerX2 - width, 2)

\* C5 as stated: the computed clipped rectangle has cropWidth >= 0 and
\* cropHeight >= 0 and lies inside the resized overlay.
C5_ClipNonNegative ==
  response.clipped =>
    /\ response.clip.visibleWidth >= 0 /\ response.clip.visibleHeight >= 0
    /\ response.clip.cropLeft >= 0 /\ response.clip.cropTop >= 0
    /\ response.clip.cropLeft + response.clip.visibleWidth <= response.rect.width
    /\ 2 * (response.clip.cropTop + response.clip.visibleHeight) <= response.rect.height2

\* C5 amended: the clipped rectangle never reaches outside the resized
\* overlay (cropLeft >= 0, cropTop >= 0, cropLeft + cropWidth <= width,
\* cropTop + cropHeight <= height); cropWidth and cropHeight are positive
\* whenever a region is extracted, and a region is extracted exactly when
\* both are positive (they are zero or negative for an overlay wholly
\* outside the canvas).
C5_ExtractInsideOverlay ==
  response.clipped =>
    /\ response.clip.cropLeft >= 0 /\ response.clip.cropTop >= 0
    /\ response.clip.cropLeft + response.clip.visibleWidth <= response.rect.width
    /\ 2 * (response.clip.cropTop + response.clip.visibleHeight) <= response.rect.height2
    /\ response.extracted <=>
         (response.clip.visibleWidth > 0 /\ response.clip.visibleHeight > 0)

C5_Witness ==
  /\ response.extracted
  /\ response.clip.cropLeft > 0 /\ response.clip.cropTop > 0
  /\ response.clip.visibleWidth < response.rect.width

\* C6: when the computed visible width or visible height is <= 0, Composite
\* and ExportFinal do not fail: the overlay layer is an empty transparent
\* canvas-sized layer, nothing is extracted from the overlay, and the
\* composite of background, (empty) overlay and text is returned.
C6_OutsideCanvasIsEmptyLayer ==
  (response.clipped /\ (response.clip.visibleWidth <= 0 \/ response.clip.visibleHeight <= 0)) =>
    /\ response.status = 200
    /\ response.overlayLayer = "empty"
    /\ ~response.extracted
    /\ Len(response.layers) >= 2
    /\ response.layers[1].input = "background"
    /\ response.layers[2] = [input |-> "lineArt", blend |-> "multiply"]
    /\ (request.title # "" \/ request.date # "") =>
          (Len(response.layers) = 3 /\ response.layers[3].input = "text")

C6_Witness ==
  /\ Succeeded("ExportFinal")
  /\ response.clipped
  /\ response.clip.visibleWidth > 0 /\ response.clip.visibleHeight <= 0
  /\ response.overlayLayer = "empty"
  /\ request.title # ""

\* C7: scenario B, {centerX: 2700, centerY: 3200, scaleHeight: 7200} on the
\* 5400x7200 canvas.
ScenarioB ==
  /\ response.clipped
  /\ response.canvas = [width |-> 5400, height |-> 7200]
  /\ response.scaled = [centerX2 |-> 5400, centerY2 |-> 6400, scale2 |-> 14400]

\* C7 as stated: left = -300 and top = -400 (to within a pixel), width 5400,
\* height 7200, both crop offsets nonzero, the clipped rectangle within
\* 5400x7200.
C7_ScenarioBAsStated ==
  ScenarioB =>
    /\ response.rect.left \in -301 .. -299
    /\ response.rect.top \in -401 .. -399
    /\ response.rect.width = 5400 /\ response.rect.height2 = 2 * 7200
    /\ response.clip.cropLeft > 0 /\ response.clip.cropTop > 0
    /\ response.clip.visibleWidth <= 5400 /\ response.clip.visibleHeight <= 7200

\* C7 amended: the placement is left = 0, top = -400, width = 5400,
\* height = 7200; only the vertical crop offset is nonzero (cropTop = 400,
\* cropLeft = 0) and the clipped rectangle, 5400 x 6800 pasted at (0, 0),
\* fits within 5400x7200.
C7_ScenarioB ==
  ScenarioB =>
    /\ response.rect = [left |-> 0, top |-> -400, width |-> 5400, height2 |-> 2 * 7200]
    /\ response.clip.cropLeft = 0 /\ response.clip.cropTop = 400
    /\ response.clip.visibleLeft = 0 /\ response.clip.visibleTop = 0
    /\ response.clip.visibleWidth = 5400 /\ response.clip.visibleHeight = 6800
    /\ response.extracted

C7_Witness ==
  /\ Succeeded("Composite") /\ ~request.preview
  /\ ScenarioB
  /\ response.clip.cropTop = 400

\* The runs of the two compositing operations that returned an image.
Composited == Succeeded("Composite") \/ Succeeded("ExportFinal")

\* C13: in every Composite and ExportFinal run the layers are applied in
\* the fixed order background, overlay with multiply blend, text with
\* alpha-over blend, and within the text the title is drawn before the
\* date; text is never applied before the overlay, nor the date before the
\* title.
C13_LayerOrder ==
  Composited =>
    /\ Len(response.layers) \in {2, 3}
    /\ response.layers[1] = [input |-> "background", blend |-> "base"]
    /\ response.layers[2] = [input |-> "lineArt", blend |-> "multiply"]
    /\ Len(response.layers) = 3 =>
         response.layers[3] = [input |-> "text", blend |-> "over"]
    /\ \A i, j \in 1 .. Len(response.layers) :
         (response.layers[i].input = "text" /\ response.layers[j].input = "lineArt")
           => j < i
    /\ \A i, j \in 1 .. Len(response.drawn) :
         (response.drawn[i].field = "title" /\ response.drawn[j].field = "date")
           => i < j

C13_Witness ==
  /\ Succeeded("ExportFinal")
  /\ Len(response.layers) = 3 /\ response.layers[3].input = "text"
  /\ Len(response.drawn) = 2
  /\ response.drawn[1].field = "title" /\ response.drawn[2].field = "date"
  /\ response.overlayLayer = "cropped"

\* The text fields a response shows as drawn.
DrawnFields == {response.drawn[i].field : i \in 1 .. Len(response.drawn)}
HasTextLayer == \E i \in 1 .. Len(response.layers) : response.layers[i].input = "text"

\* C14: a text field whose text is empty produces no drawing and no layer:
\* with the title empty and the date not, only the date is drawn; with the
\* date empty and the title not, only the title; with both empty no text
\* layer is added to the composite at all.  Composite and ExportFinal alike.
C14_EmptyTextSkipped ==
  Composited =>
    /\ ("title" \in DrawnFields) <=> (request.title # "")
    /\ ("date" \in DrawnFields) <=> (request.date # "")
    /\ Len(response.drawn) = Cardinality(DrawnFields)
    /\ \A i \in 1 .. Len(response.drawn) : response.drawn[i].text # ""
    /\ HasTextLayer <=> (request.title # "" \/ request.date # "")
    /\ (request.title = "" /\ request.date = "") =>
         (response.drawn = <<>> /\ Len(response.layers) = 2)

\* Scenario E: no title, date 02.02.25.
C14_Witness ==
  /\ Succeeded("Composite")
  /\ request.title = "" /\ request.date = "02.02.25"
  /\ Len(response.drawn) = 1 /\ response.drawn[1].field = "date"
  /\ response.drawn[1].text = "02.02.25"
  /\ HasTextLayer

\* An export request whose overlay and background are there.
ExportOf(req) ==
  IF req.op = "ExportFinal" THEN ExportFullPOST(req) ELSE ExportPOST(req)
Exporting == request.op \in {"ExportFinal", "Export"} /\ request.lineArtImage # ""

\* C15: for a size label that is not in the lookup table the resolver does
\* not hand back a canvas without dimensions, and the operation that called
\* it falls back to the documented default size, 18x24, instead of crashing
\* or answering with a server error: the export answers as it does for 18x24.
C15_UnknownSizeFallsBack ==
  (Exporting /\ request.size \notin ImageSizes) =>
    /\ "width" \in DOMAIN getCanvasDimensions(request.size)
    /\ response.status # 500
    /\ response = ExportOf([request EXCEPT !.size = "18x24"])

\* C16 as stated: a bleed code that is not in the bleed table is rejected;
\* no export answers it with an image, padded or not.
C16_UnknownBleedRejected ==
  (Exporting /\ request.bleed \notin BleedTypes) =>
    (response.status \in {400, 500} /\ response.width = 0 /\ response.height = 0)

\* C16 amended: a bleed code that is not in the bleed table is not rejected:
\* ExportFinal and Export treat it as zero bleed, answering exactly as they
\* do for 'none', so that a successful export returns the unpadded image of
\* the target size.
C16_UnknownBleedIsNoBleed ==
  (Exporting /\ request.bleed \notin BleedTypes) =>
    /\ response = ExportOf([request EXCEPT !.bleed = "none"])
    /\ response.status = 200 =>
         /\ ~response.padded
         /\ response.width = TargetSize(request.size).width
         /\ response.height = TargetSize(request.size).height

C16_Witness ==
  /\ Succeeded("ExportFinal")
  /\ request.bleed = "5px" /\ request.size = "30x40"
  /\ ~response.padded /\ response.width = 9000 /\ response.height = 12000

\* What the same request gives when it is run at full resolution.
FullMode == CompositePOST([request EXCEPT !.preview = FALSE])

\* |p - f/2| <= 2 for a preview value p and a full-mode value f.
WithinTwo(p, f) == 2 * p - f >= -4 /\ 2 * p - f <= 4
\* the same for values held in halves
WithinTwoHalves(p2, f2) == 2 * p2 - f2 >= -8 /\ 2 * p2 - f2 <= 8

\* C12: preview/full consistency: every coordinate that Composite computes
\* in preview mode (overlay rectangle left, top, width, height; the clip
\* rectangle; the text baselines) differs from one half of the coordinate
\* full mode computes for the same request by at most 2 preview pixels, and
\* the preview canvas is half the full canvas.
C12_PreviewIsHalfOfFull ==
  (request.op = "Composite" /\ request.preview /\ response.placed) =>
    /\ FullMode.placed
    /\ 2 * response.canvas.width = FullMode.canvas.width
    /\ 2 * response.canvas.height = FullMode.canvas.height
    /\ WithinTwo(response.rect.left, FullMode.rect.left)
    /\ WithinTwo(response.rect.top, FullMode.rect.top)
    /\ WithinTwo(response.rect.width, FullMode.rect.width)
    /\ WithinTwoHalves(response.rect.height2, FullMode.rect.height2)
    /\ (response.clipped /\ FullMode.clipped) =>
         /\ WithinTwo(response.clip.cropLeft, FullMode.clip.cropLeft)
         /\ WithinTwo(response.clip.cropTop, FullMode.clip.cropTop)
         /\ WithinTwo(response.clip.visibleLeft, FullMode.clip.visibleLeft)
         /\ WithinTwo(response.clip.visibleTop, FullMode.clip.visibleTop)
         /\ WithinTwo(response.clip.visibleWidth, FullMode.clip.visibleWidth)
         /\ WithinTwo(response.clip.visibleHeight, FullMode.clip.visibleHeight)
    /\ (response.status = 200 /\ FullMode.status = 200) =>
         /\ Len(response.drawn) = Len(FullMode.drawn)
         /\ \A i \in 1 .. Len(response.drawn) :
              /\ response.drawn[i].field = FullMode.drawn[i].field
              /\ WithinTwoHalves(response.drawn[i].y2, FullMode.drawn[i].y2)
              /\ WithinTwoHalves(response.drawn[i].x2, FullMode.drawn[i].x2)

\* A preview whose overlay is cut on the left and the top, with both texts
\* drawn, where halving has rounded a coordinate and a baseline.
C12_Witness ==
  /\ Succeeded("Composite") /\ request.preview
  /\ response.extracted /\ FullMode.extracted
  /\ response.clip.cropLeft > 0 /\ response.clip.cropTop > 0
  /\ 2 * response.rect.left # FullMode.rect.left
  /\ Len(response.drawn) = 2
  /\ 2 * response.drawn[1].y2 # FullMode.drawn[1].y2

----------------------------------------------------------------------------
(* Properties of the eraser *)

\* The mapping of section 4.4 for canvas pixel (cx, cy), in whole numbers:
\* with left = lineArtLeft2/2, top = lineArtTop2/2, trueWidth = H*ow/oh and
\* correctedLeft = left + (W - trueWidth)/2, the offset cx - correctedLeft is
\* OffsetX/(2*oh) and cy - top is OffsetY/2.
OffsetX(cx, ow, oh, r) ==
  2 * oh * cx - (r.lineArtLeft2 * oh + r.lineArtWidth * oh - r.lineArtHeight * ow)
OffsetY(cy, r) == 2 * cy - r.lineArtTop2

InCorrectedRect(cx, cy, ow, oh, r) ==
  /\ OffsetX(cx, ow, oh, r) >= 0
  /\ OffsetX(cx, ow, oh, r) < 2 * r.lineArtHeight * ow
  /\ OffsetY(cy, r) >= 0
  /\ OffsetY(cy, r) < 2 * r.lineArtHeight

\* round(x) as floor(x + 1/2)
ClaimedOrigX(cx, ow, oh, r) ==
  (OffsetX(cx, ow, oh, r) + r.lineArtHeight) \div (2 * r.lineArtHeight)
ClaimedOrigY(cy, oh, r) ==
  (OffsetY(cy, r) * oh + r.lineArtHeight) \div (2 * r.lineArtHeight)

\* An apply-eraser request that the route answered with a cleaned overlay.
Erased == eraserReq.op # "none" /\ eraserOut.status = 200

Marked(cx, cy, r) == r.red[cy * r.canvasWidth + cx + 1] >= 50

\* Source pixel (x, y) is the image of a marked canvas pixel inside the
\* corrected placement rectangle.
ImageOfMarked(x, y, ow, oh, r) ==
  \E cx \in 0 .. r.canvasWidth - 1, cy \in 0 .. r.canvasHeight - 1 :
    /\ Marked(cx, cy, r)
    /\ InCorrectedRect(cx, cy, ow, oh, r)
    /\ ClaimedOrigX(cx, ow, oh, r) = x
    /\ ClaimedOrigY(cy, oh, r) = y

\* C8: ApplyEraser sets to (255,255,255,255) exactly the source pixels
\* (origX, origY) that are images of marked canvas pixels inside the
\* corrected placement rectangle and within native bounds; every other
\* source pixel keeps its value, and the raster keeps its width and height.
C8_ErasesExactlyTheImages ==
  Erased =>
    /\ lineArt.width = eraserIn.width /\ lineArt.height = eraserIn.height
    /\ Len(lineArt.px) = Len(eraserIn.px)
    /\ \A x \in 0 .. eraserIn.width - 1, y \in 0 .. eraserIn.height - 1 :
         LET i == y * eraserIn.width + x + 1
         IN lineArt.px[i] =
              IF ImageOfMarked(x, y, eraserIn.width, eraserIn.height, eraserReq)
              THEN <<255, 255, 255, 255>>
              ELSE eraserIn.px[i]

C8_Witness ==
  /\ Erased /\ eraseCount > 0
  /\ 4 * eraserIn.width # 3 * eraserIn.height
  /\ \E i \in 1 .. Len(lineArt.px) :
       lineArt.px[i] = WHITE /\ eraserIn.px[i] # WHITE
  /\ \E i \in 1 .. Len(lineArt.px) :
       lineArt.px[i] # WHITE /\ lineArt.px[i] = eraserIn.px[i]

\* The placement rectangle (left, top, width, height) as sent in the request.
InSentRect(cx, cy, r) ==
  /\ 2 * cx >= r.lineArtLeft2 /\ 2 * cx < r.lineArtLeft2 + 2 * r.lineArtWidth
  /\ 2 * cy >= r.lineArtTop2 /\ 2 * cy < r.lineArtTop2 + 2 * r.lineArtHeight

\* C9: eraser locality: marked mask pixels outside the placement rectangle
\* sent in the request never change a pixel of the overlay; so a mask whose
\* marked pixels all lie outside it leaves the overlay as it was.
C9_EraserLocality ==
  (/\ Erased
   /\ \A cx \in 0 .. eraserReq.canvasWidth - 1, cy \in 0 .. eraserReq.canvasHeight - 1 :
        Marked(cx, cy, eraserReq) => ~InSentRect(cx, cy, eraserReq))
  => lineArt = eraserIn

\* C10: eraser idempotence: ApplyEraser applied to its own output with the
\* same mask and placement returns that output unchanged.
C10_EraserIdempotent ==
  repeat => lineArt = eraserIn

C10_Witness ==
  /\ repeat /\ eraseCount > 0
  /\ lineArt = eraserIn
  /\ \E i \in 1 .. Len(lineArt.px) : lineArt.px[i] # WHITE

\* No pixel of the mask (resized to the canvas) reaches the erase threshold.
BlankMask(r) == \A c \in 1 .. Len(r.red) : r.red[c] < 50

\* C11: when the mask is entirely blank (no pixel's intensity reaches the
\* erase threshold), ApplyEraser returns an overlay identical to its input:
\* every pixel keeps its value, alpha included, and zero pixels are erased.
C11_BlankMaskChangesNothing ==
  (Erased /\ BlankMask(eraserReq)) =>
    /\ eraseCount = 0
    /\ lineArt.width = eraserIn.width /\ lineArt.height = eraserIn.height
    /\ \A i \in 1 .. Len(eraserIn.px) :
         \A k \in 1 .. 4 : lineArt.px[i][k] = eraserIn.px[i][k]

\* A mask that is faint everywhere (49, just under the threshold), placed
\* over an overlay holding ink and transparent pixels.
C11_Witness ==
  /\ Erased /\ BlankMask(eraserReq)
  /\ \E c \in 1 .. Len(eraserReq.red) : eraserReq.red[c] = 49
  /\ \E i \in 1 .. Len(lineArt.px) : lineArt.px[i] = INK
  /\ \E i \in 1 .. Len(lineArt.px) : lineArt.px[i][4] = 0
  /\ eraseCount = 0

\* C17: when required image bytes are absent (no overlay image for
\* Composite or ExportFinal; no overlay image or no mask image for
\* ApplyEraser; no image data for Export) the operation answers with an
\* error before doing any processing: no asset is looked up or read, no
\* raster is decoded, nothing is placed or stacked, no image is returned.
C17_MissingInputRejectedFirst ==
  /\ (request.op # "none" /\ request.lineArtImage = "") =>
       response = [NoResponse EXCEPT !.status = 400]
  /\ (eraserReq.op # "none" /\ (eraserReq.lineArtImage = "" \/ eraserReq.maskImage = "")) =>
       /\ eraserOut = [status |-> 400, decoded |-> FALSE, looped |-> FALSE,
                       returned |-> FALSE]
       /\ eraseCount = 0
       /\ lineArt = eraserIn

\* An apply-eraser request with its overlay but without a mask.
C17_Witness ==
  /\ eraserReq.op = "ApplyEraser"
  /\ eraserReq.lineArtImage = "overlay" /\ eraserReq.maskImage = ""
  /\ eraserOut.status = 400 /\ ~eraserOut.decoded
  /\ lineArt = eraserIn

\* The native aspect ratio width/height is zero or undefined.
NoNativeAspect(image) == image.width = 0 \/ image.height = 0

----------------------------------------------------------------------------
(* Properties of the editor's debounce *)

\* A step that submits a Composite request while a burst is on record.
SubmitsInBurst == sent'.n = sent.n + 1 /\ burst.changes > 0
\* A slider change 300 ms or more after the previous one: the burst on
\* record is over and a new one begins.
BeginsNextBurst ==
  placement' # placement /\ burst.changes > 0 /\ burst.quiet >= DEBOUNCE_MS

\* every request of a burst comes 300 ms or more after its last change, is
\* the first for the burst and carries the current centerX, centerY, scale
SubmitsLatestAfterQuiet ==
  SubmitsInBurst =>
    /\ burst.quiet >= DEBOUNCE_MS
    /\ burst.sent = 0
    /\ sent'.config = placement /\ sent'.preview

\* once no timer is pending, the burst has had its one request
SettledBurstAnswered ==
  (hasComposited /\ burst.changes > 0 /\ ~timer.armed) =>
    (burst.sent = 1 /\ sent.config = placement)

----------------------------------------------------------------------------
(* Properties of the AI transform steps *)

TransformMounted == wizard.currentStep \in {2, 3} /\ wizard.effectRuns > 0

\* A mounted step has sent one request for its mount and one for each
\* Regenerate / Retry click, with at most one in flight, and none while it
\* shows an error.
OneRequestPerMountOrClick ==
  /\ TransformMounted => wizard.requests = 1 + wizard.operatorActions
  /\ ~TransformMounted => wizard.requests = 0
  /\ wizard.pending <= 1
  /\ wizard.error => wizard.pending = 0

\* While the same step stays mounted, a request is only added, and an error
\* only cleared, by a step that is a Regenerate / Retry click.
OnlyTheOperatorRetries ==
  (TransformMounted /\ wizard'.currentStep = wizard.currentStep
     /\ (wizard'.requests # wizard.requests \/ (wizard.error /\ ~wizard'.error)))
  => /\ wizard'.operatorActions = wizard.operatorActions + 1
     /\ wizard'.requests = wizard.requests + 1

\* C20: the transform request is never retried automatically.  Each
\* transform step issues exactly one request when it mounts, also when its
\* mount effect runs twice (Strict Mode); a further request is issued only
\* by Regenerate or Retry Transformation; a failed request stays failed
\* until the operator acts.
C20_NoAutomaticRetry ==
  /\ []OneRequestPerMountOrClick
  /\ [][OnlyTheOperatorRetries]_vars

\* AutoTransformStep, mount effect run twice, first request failed, Retry
\* clicked once and the second request failed too.
C20_Witness ==
  /\ wizard.currentStep = 3 /\ wizard.effectRuns = 2
  /\ wizard.error /\ wizard.operatorActions = 1 /\ wizard.requests = 2

----------------------------------------------------------------------------
(* Properties of the authentication *)

\* The last request was for a path the middleware protects.
ProtectedRequest ==
  /\ auth.last.outcome # "none"
  /\ Matched(auth.last.path) /\ ~isPublicPath(auth.last.path)

\* C21: all pages require login.  A request for a protected path that
\* carries no auth_token cookie is redirected to /login, and after logout
\* every request of the browser for a protected path is redirected until a
\* new login succeeds.
C21_AllPagesRequireLogin ==
  ProtectedRequest =>
    /\ auth.last.token = NoToken => auth.last.outcome = "redirect"
    /\ (auth.last.browser /\ auth.last.afterLogout) => auth.last.outcome = "redirect"

\* C22: the token is validated on each request.  A request gets past the
\* middleware to a protected path only with a token that login issued, and
\* the verify route reports a token that login never issued as invalid.
C22_TokenValidated ==
  /\ (ProtectedRequest /\ auth.last.outcome = "next") => auth.last.token \in auth.issued
  /\ (auth.verified.status # 0 /\ auth.verified.token \notin auth.issued)
       => ~auth.verified.valid

----------------------------------------------------------------------------
(* Properties of the CSV orders *)

\* The README's SKU Bleed Mapping table.
ReadmeSkuTable ==
  [s \in {"62", "63", "64", "69"} |->
    IF s = "62" THEN [bleed |-> "450px", aspectRatio |-> "3:4"]
    ELSE IF s = "63" THEN [bleed |-> "none", aspectRatio |-> "3:4"]
    ELSE [bleed |-> "20px", aspectRatio |-> "2:3"]]

ExactLineArtSkus == {<<"100", "35", "11194", s>> : s \in {"62", "63", "64", "69"}}

\* C23: for every CSV row accepted as a LineArt order the SKU suffix gives
\* the bleed and the aspect class of the README table (-62: 450px, 3:4;
\* -63: none, 3:4; -64 and -69: 20px, 2:3), and a row whose SKU is not
\* exactly 100-35-11194-62/63/64/69 is not returned.
C23_SkuGivesBleedAndAspect ==
  csv.rows > 0 =>
    /\ csv.returned <=> csv.row.SKU \in ExactLineArtSkus
    /\ csv.returned =>
         LET expected == ReadmeSkuTable[csv.row.SKU[4]]
         IN /\ csv.order.bleed = expected.bleed
            /\ SIZE_ASPECT_RATIO[csv.order.size] = expected.aspectRatio

----------------------------------------------------------------------------
(* Properties of the eraser's aspect correction *)

REq(a, b) == a.n * b.d = b.n * a.d
RHalf(a) == RDiv(a, Rat(2, 1))

AgreesWithCompositor(cx, cy, ow, oh, r) ==
  LET drawn == DrawnSource(cx, cy, ow, oh, r)
      i == LineArtIndex(cx, cy, ow, oh, r)
  IN i >= 0 => /\ (i % ow) - drawn[1] \in -1 .. 1
               /\ (i \div ow) - drawn[2] \in -1 .. 1

ShowsOverlay(cx, cy, ow, oh, r) == DrawnSource(cx, cy, ow, oh, r) # <<-1, -1>>

\* C25: eraser and compositor agree on where the overlay is.  For every
\* native overlay size, a marked canvas pixel that shows overlay content in
\* the composite whitens the source pixel the compositor drew at that
\* canvas pixel, to within one source pixel.
C25_EraserInvertsCompositor ==
  Erased =>
    \A cx \in 0 .. eraserReq.canvasWidth - 1, cy \in 0 .. eraserReq.canvasHeight - 1 :
      (Marked(cx, cy, eraserReq)
         /\ ShowsOverlay(cx, cy, eraserIn.width, eraserIn.height, eraserReq))
      => AgreesWithCompositor(cx, cy, eraserIn.width, eraserIn.height, eraserReq)

----------------------------------------------------------------------------
(* Properties of the editor session *)

\* The full-resolution canvas of the preview shown: the preview is rendered
\* at half scale.
PreviewCanvas(width, height) == [width |-> 2 * width, height |-> 2 * height]

\* C26: for every size label, the canvas the editor tells apply-eraser to
\* interpret the mask in is the full-resolution canvas on which the preview
\* shown was rendered, and both equal the canvas export-full composites on;
\* for 2:3 labels as well as 3:4 labels.
C26_OneCanvasInEditor ==
  /\ editor.eraserCall.pending =>
       [width |-> editor.eraserCall.canvasWidth,
        height |-> editor.eraserCall.canvasHeight]
         = PreviewCanvas(editor.eraserCall.previewWidth,
                         editor.eraserCall.previewHeight)
  /\ editor.exportCall.pending =>
       /\ [width |-> editor.exportCall.width, height |-> editor.exportCall.height]
            = PreviewCanvas(editor.compositeImage.width, editor.compositeImage.height)
       /\ editor.eraserCall.canvasWidth > 0 =>
            /\ editor.exportCall.width = editor.eraserCall.canvasWidth
            /\ editor.exportCall.height = editor.eraserCall.canvasHeight

\* The request carries the overlay the editor held when it was submitted,
\* which is the most recently cleaned one (the original before any erasure).
CarriesLatestOverlay(r) == r.lineArt = r.cleanedThen

\* C27: erasures accumulate and are never lost.  Each apply-eraser request
\* operates on the output of the previous successful one, and every later
\* composite request and the export request carry the most recently cleaned
\* overlay, never the original or an earlier cleaned one.
C27_ErasuresAccumulate ==
  /\ editor.eraserCall.pending => CarriesLatestOverlay(editor.eraserCall)
  /\ \A r \in editor.inFlight : CarriesLatestOverlay(r)
  /\ editor.exportCall.pending => CarriesLatestOverlay(editor.exportCall)

\* A step of a mounted editor does not replace the preview shown by one
\* computed for an earlier request with another placement or overlay.
PreviewNotOlder ==
  (editor.mounted /\ editor'.mounted
     /\ editor'.compositeImage.n < editor.compositeImage.n)
    => /\ editor'.compositeImage.placement = editor.compositeImage.placement
       /\ editor'.compositeImage.lineArt = editor.compositeImage.lineArt

\* C28: when several composite requests of the editor are in flight and
\* their responses arrive in any order, a late response to an older request
\* never replaces a newer preview, so that once all have completed the
\* preview shown is the one computed for the most recently submitted
\* placement and overlay.
C28_LatestPreviewWins == [][PreviewNotOlder]_vars

----------------------------------------------------------------------------
(* Properties of the automatic return to step 1 *)

\* The step is the firing of a 3 s reset timer while Home no longer shows
\* the success screen.
ResetTimerFiresLate ==
  wizard'.resetTimers < wizard.resetTimers /\ wizard.currentStep # 5

\* C29: the automatic return to step 1 scheduled 3 seconds after an approved
\* download only acts on the success screen: when the operator has pressed
\* Start New Order and begun another order before the timer fires, the
\* timer resets neither that order's data nor its step.
C29_ResetOnlyOnSuccessScreen ==
  [][ResetTimerFiresLate
       => /\ wizard'.currentStep = wizard.currentStep
          /\ wizard'.orderData = wizard.orderData]_vars

----------------------------------------------------------------------------
(* Properties of the editor at mount *)

\* C30: when the composite step mounts, exactly one composite request is
\* issued (the initial preview); the debounced auto-update does not run
\* until the operator changes a slider, so no second request for the
\* unchanged default configuration is issued 300 ms after mount.
C30_OneRequestAtMount ==
  (hasComposited /\ burst.total = 0)
    => /\ sent.n = 1
       /\ sent.config = DefaultPlacement

============================================================================
